---- MODULE Spec2Model ----
(***************************************************************************)
(* Model of the videomeet signaling server (server/index.js): the room     *)
(* registry, the join-room / disconnect handlers, the offer / answer       *)
(* relay, chat, the media toggles, the chunked socket uploads and the REST *)
(* endpoints, as a state machine over the in-memory `rooms` map, the       *)
(* per-socket context, the socket.io room membership, the per-connection   *)
(* `ongoingUploads` maps, their write streams and the uploads directory;   *)
(* and of the browser client (pages/Room.tsx, hooks/useWebRTC.ts): the     *)
(* participants list, the camera peer connections and the screen-share     *)
(* state of the page attached to a connection.                             *)
(***************************************************************************)
EXTENDS Integers, Sequences, FiniteSets, TLC

VARIABLES
  rooms,    \* const rooms = new Map(): room code -> Room
  sockets,  \* per connection: status, socket.roomId, socket.nickname
  sio,      \* socket.io adapter: socket -> set of room names it has join()ed
  out,      \* socket -> events delivered to it by the handler that ran last
  res,      \* HTTP response of the handler that ran last (NoRes otherwise)
  last,     \* the event the server handled last
  uploads,  \* per connection: const ongoingUploads = new Map()
  streams,  \* upload id -> the fs.WriteStream created for it
  disk,     \* the uploads directory: file name -> length in bytes
  acks,     \* the acknowledgement callbacks invoked by the step that ran last
  uuids,    \* number of values uuidv4() has produced for uploads and chat
  running,  \* the server process has not exited
  clients   \* connection -> the state of the Room page attached to it

vars == <<rooms, sockets, sio, out, res, last, uploads, streams, disk, acks,
          uuids, running, clients>>

\* the state of the chunked uploads
ioVars == <<uploads, streams, disk, uuids>>

----------------------------------------------------------------------------
(* Bounds of the model *)

\* number of connections of the general specification
NumSockets == 2
\* number of connections of the capacity specification
NumCapSockets == 11
\* number of connections of the signaling specification
NumSignalSockets == 3
\* number of connections that close in the capacity specification
MaxCapClosed == 2
\* number of connections of the chat specification
NumChatSockets == 2
\* number of chat messages the chat specification lets the server accept
MaxMessages == 2
\* number of connections of the letter-case specification
NumCaseSockets == 2
\* number of connections of the upload specification
NumUploadSockets == 2
\* number of uploads the upload specification lets the server start
MaxUploads == 1
\* number of file-upload-complete events one upload session is sent
MaxEnds == 2
\* number of connections of the protocol specification
NumProtoSockets == 2
\* number of chat messages the protocol specification lets the server accept
MaxProtoMessages == 2
\* number of connections of the file-name specification
NumFileSockets == 2
\* number of uploads the file-name specification lets the server start
MaxFileUploads == 2

SocketName(i) == "s" \o ToString(i)
SocketIds == { SocketName(i) : i \in 1..NumSockets }
CapSocketIds == { SocketName(i) : i \in 1..NumCapSockets }
SignalSocketIds == { SocketName(i) : i \in 1..NumSignalSockets }
ChatSocketIds == { SocketName(i) : i \in 1..NumChatSockets }
UploadSocketIds == { SocketName(i) : i \in 1..NumUploadSockets }
CaseSocketIds == { SocketName(i) : i \in 1..NumCaseSockets }
ProtoSocketIds == { SocketName(i) : i \in 1..NumProtoSockets }
FileSocketIds == { SocketName(i) : i \in 1..NumFileSockets }
\* the nickname a connection uses where the nickname is not what is varied
NickOf(s) == "nick-" \o s

\* room codes the generator can produce (canonical, upper case)
Codes == {"R1", "R2"}
\* room ids as clients may send them
RawIds == {"R1", "r1", "R2"}
Nicknames == {"alice", "bob"}
\* req.body.hostId values of create-room; undefined/empty is "" (falsy)
HostIdInputs == {"", "s1"}
Payloads == {"sdp"}
\* data.message and data.file of chat-message; "" is empty text / no file
ChatTexts == {"hi", ""}
ChatFiles == {"", "/uploads/f1"}
\* data.roomId of file-upload-start; "" is a missing roomId
UploadRoomIds == {"", "r1"}
\* the byte lengths of the model: a declared size and two chunk lengths;
\* a small and a large chunk make the declared size exactly, two large or
\* three small chunks pass it
DeclaredSize == 1000
ChunkSmall == 400
ChunkLarge == DeclaredSize - ChunkSmall

----------------------------------------------------------------------------
(* Program constants *)

MAX_PARTICIPANTS == 10

Undefined == "undefined"
NoRes == [status |-> 0, roomId |-> "", participantCount |-> 0, error |-> ""]
NoEvent == [ev |-> "", sock |-> "", roomId |-> "", nickname |-> "",
            to |-> "", payload |-> "", num |-> 0, flag |-> FALSE,
            whole |-> TRUE]

\* String.prototype.toUpperCase on the room ids of the model
ToUpperCase(id) ==
  CASE id = "r1" -> "R1"
    [] id = "r2" -> "R2"
    [] OTHER -> id

----------------------------------------------------------------------------
(* Outbound events.  One uniform record shape for every event.             *)

Msg(ev) == [ev |-> ev, socketId |-> "", nickname |-> "", roomId |-> "",
            message |-> "", payload |-> "", participants |-> <<>>,
            flag |-> FALSE, id |-> ""]

EmptyOut == [s \in DOMAIN sockets |-> <<>>]

\* an emit that reaches every connection
Emit_ToAll(o, s, m) == [t \in DOMAIN o |-> Append(o[t], m)]

\* socket.emit(ev, m): to the socket of the handler
Emit(o, s, m) == [o EXCEPT ![s] = Append(@, m)]

\* socket.to(room).emit(ev, m): to every socket in the socket.io room but s
BroadcastFrom(o, members, s, room, m) ==
  [t \in DOMAIN o |->
     IF t # s /\ room \in members[t] THEN Append(o[t], m) ELSE o[t]]

----------------------------------------------------------------------------
(* class Room *)

NewRoom(id, hostId) ==
  [id |-> id, hostId |-> hostId, participants |-> <<>>, messages |-> <<>>]

ParticipantIds(room) ==
  { room.participants[i].socketId : i \in 1..Len(room.participants) }

Has(room, socketId) == socketId \in ParticipantIds(room)

\* Map.prototype.set: replaces in place when the key exists, appends otherwise
MapSet(seq, entry) ==
  IF \E i \in 1..Len(seq) : seq[i].socketId = entry.socketId
    THEN [i \in 1..Len(seq) |->
            IF seq[i].socketId = entry.socketId THEN entry ELSE seq[i]]
    ELSE Append(seq, entry)

\* Map.prototype.delete
MapDelete(seq, socketId) == SelectSeq(seq, LAMBDA e : e.socketId # socketId)

AddParticipant(room, socketId, userData) ==
  IF Len(room.participants) >= MAX_PARTICIPANTS
    THEN [ok |-> FALSE, room |-> room]
    ELSE [ok |-> TRUE,
          room |-> [room EXCEPT !.participants =
                      MapSet(@, [socketId |-> socketId] @@ userData)]]

RemoveParticipant(room, socketId) ==
  LET ps == MapDelete(room.participants, socketId)
  IN  [room EXCEPT
         !.participants = ps,
         !.hostId = IF room.hostId = socketId /\ Len(ps) > 0
                      THEN ps[1].socketId
                      ELSE @]

GetParticipants(room) == room.participants

----------------------------------------------------------------------------
(* rooms Map helpers *)

RoomsSet(m, id, room) ==
  [c \in DOMAIN m \cup {id} |-> IF c = id THEN room ELSE m[c]]

RoomsDelete(m, id) == [c \in DOMAIN m \ {id} |-> m[c]]

----------------------------------------------------------------------------
(* Initial state: the server is listening, no room, no connection yet.     *)

\* connections that start out bound to a room
InitSockets_Bound(ids) ==
  [s \in ids |-> [status |-> "new", roomId |-> "R1", nickname |-> Undefined]]

InitSockets(ids) ==
  [s \in ids |-> [status |-> "new", roomId |-> Undefined, nickname |-> Undefined]]

InitServer(ids) ==
  /\ rooms = << >>
  /\ sockets = InitSockets(ids)
  /\ sio = [s \in ids |-> {}]
  /\ out = [s \in ids |-> <<>>]
  /\ res = NoRes
  /\ last = NoEvent
  /\ uploads = [s \in ids |-> << >>]
  /\ streams = << >>
  /\ disk = << >>
  /\ acks = <<>>
  /\ uuids = 0
  /\ running = TRUE

\* the server alone: no page is attached to a connection
InitWith(ids) == InitServer(ids) /\ clients = << >>

Init == InitWith(SocketIds)

\* a closed connection: its socket object is unreachable garbage
DeadSocket ==
  [status |-> "disconnected", roomId |-> Undefined, nickname |-> Undefined]

Connected(s) == sockets[s].status = "connected"

----------------------------------------------------------------------------
(* REST API *)

\* app.post('/api/create-room'): roomId is what the uuid generator produced
CreateRoom(roomId, bodyHostId) ==
  LET hostId == IF bodyHostId # "" THEN bodyHostId ELSE "temp-host"
  IN  /\ rooms' = RoomsSet(rooms, roomId, NewRoom(roomId, hostId))
      /\ res' = [NoRes EXCEPT !.status = 200, !.roomId = roomId]
      /\ UNCHANGED running
      /\ UNCHANGED clients
      /\ out' = EmptyOut
      /\ last' = [NoEvent EXCEPT !.ev = "create-room", !.roomId = roomId,
                                 !.payload = bodyHostId]
      /\ acks' = <<>>
      /\ UNCHANGED <<sockets, sio>>
      /\ UNCHANGED ioVars

\* app.get('/api/room/:id')
GetRoomResponse(m, id) ==
  LET roomId == ToUpperCase(id)
  IN  IF roomId \notin DOMAIN m
        THEN [NoRes EXCEPT !.status = 404, !.error = "Room not found"]
        ELSE [NoRes EXCEPT !.status = 200, !.roomId = roomId,
                           !.participantCount = Len(m[roomId].participants)]

GetRoom(id) ==
      /\ res' = GetRoomResponse(rooms, id)
      /\ UNCHANGED running
      /\ UNCHANGED clients
      /\ out' = EmptyOut
      /\ last' = [NoEvent EXCEPT !.ev = "get-room", !.roomId = id]
      /\ acks' = <<>>
      /\ UNCHANGED <<rooms, sockets, sio>>
      /\ UNCHANGED ioVars

----------------------------------------------------------------------------
(* io.on('connection') *)

Connect(s) ==
  /\ sockets[s].status = "new"
  /\ sockets' = [sockets EXCEPT ![s].status = "connected"]
  /\ out' = EmptyOut
  /\ res' = NoRes
  /\ UNCHANGED running
  /\ UNCHANGED clients
  /\ last' = [NoEvent EXCEPT !.ev = "connection", !.sock = s]
  /\ acks' = <<>>
  /\ UNCHANGED <<rooms, sio>>
  /\ UNCHANGED ioVars

----------------------------------------------------------------------------
(* socket.on('join-room') *)

\* the capacity check with an off-by-one comparison
RoomIsFull_OffByOne(room) == Len(room.participants) > MAX_PARTICIPANTS

\* the capacity check of the handler
RoomIsFull(room) == Len(room.participants) >= MAX_PARTICIPANTS

\* the already-in-room check that never recognises the connection
AlreadyInRoom_Never(room, socketId) == FALSE

\* the already-in-room check of the handler: room.participants.has(socket.id)
AlreadyInRoom(room, socketId) == Has(room, socketId)

\* the duplicate nickname check reading the keys of the map, not the values
NicknameTaken_WrongField(room, nickname) ==
  \E i \in 1..Len(room.participants) : room.participants[i].socketId = nickname

\* the duplicate nickname check of the handler
NicknameTaken(room, nickname) ==
  LET existingNicknames ==
        [i \in 1..Len(room.participants) |-> room.participants[i].nickname]
  IN  \E i \in 1..Len(existingNicknames) : existingNicknames[i] = nickname

UserData(nickname) ==
  [nickname |-> nickname, isMuted |-> FALSE, isVideoEnabled |-> TRUE,
   isHandRaised |-> FALSE]

RoomJoined(roomId, room, s) ==
  [Msg("room-joined") EXCEPT !.roomId = roomId,
                             !.participants = GetParticipants(room),
                             !.flag = (room.hostId = s)]

ErrorMsg(message) == [Msg("error") EXCEPT !.message = message]

JoinRoom(s, roomId, nickname) ==
  LET code == ToUpperCase(roomId)
      ev == [NoEvent EXCEPT !.ev = "join-room", !.sock = s, !.roomId = roomId,
                            !.nickname = nickname]
  IN
  /\ Connected(s)
  /\ last' = ev
  /\ res' = NoRes
  /\ UNCHANGED running
  /\ UNCHANGED clients
  /\ acks' = <<>>
  /\ UNCHANGED ioVars
  /\ IF code \notin DOMAIN rooms THEN
       /\ out' = Emit(EmptyOut, s, ErrorMsg("Room not found"))
       /\ UNCHANGED <<rooms, sockets, sio>>
     ELSE IF AlreadyInRoom(rooms[code], s) THEN
       /\ out' = Emit(EmptyOut, s, RoomJoined(roomId, rooms[code], s))
       /\ UNCHANGED <<rooms, sockets, sio>>
     ELSE IF RoomIsFull(rooms[code]) THEN
       /\ out' = Emit(EmptyOut, s, ErrorMsg("Room is full"))
       /\ UNCHANGED <<rooms, sockets, sio>>
     ELSE IF NicknameTaken(rooms[code], nickname) THEN
       /\ out' = Emit(EmptyOut, s, ErrorMsg("Nickname already taken"))
       /\ UNCHANGED <<rooms, sockets, sio>>
     ELSE
       LET userData == UserData(nickname)
           added == AddParticipant(rooms[code], s, userData)
       IN  IF added.ok THEN
             /\ rooms' = [rooms EXCEPT ![code] = added.room]
             /\ sio' = [sio EXCEPT ![s] = @ \cup {roomId}]
             /\ sockets' = [sockets EXCEPT ![s].roomId = roomId,
                                           ![s].nickname = nickname]
             /\ out' = Emit(
                         BroadcastFrom(EmptyOut, sio', s, roomId,
                           [Msg("user-joined") EXCEPT !.socketId = s,
                                                      !.nickname = nickname]),
                         s, RoomJoined(roomId, added.room, s))
           ELSE
             /\ out' = EmptyOut
             /\ UNCHANGED <<rooms, sockets, sio>>

----------------------------------------------------------------------------
(* Chunked socket uploads.  state.writeStream is Node's fs.WriteStream     *)
(* (Node 18+, per the README): createWriteStream returns before the file   *)
(* is opened, the open (flag 'w') creates the file later and cannot be     *)
(* cancelled; writes are queued and complete one by one; the callback      *)
(* given to end() is invoked when the stream has finished and also when it *)
(* has failed or was destroyed; 'error' is emitted only after the failed   *)
(* stream has closed its descriptor, so other events can be handled        *)
(* between a failed write and the 'error' listener.                        *)

MAX_SOCKET_UPLOAD_BYTES == 25 * 1024 * 1024

\* the argument of an acknowledgement callback; sock, ev and uploadId name
\* the request that is answered
NoAck == [sock |-> "", ev |-> "", uploadId |-> "", ok |-> FALSE,
          error |-> "", received |-> 0, hasFile |-> FALSE, size |-> 0,
          url |-> ""]

AckError(s, ev, uploadId, error) ==
  [NoAck EXCEPT !.sock = s, !.ev = ev, !.uploadId = uploadId, !.error = error]

\* ack({ ok: true, uploadId })
AckStarted(s, uploadId) ==
  [NoAck EXCEPT !.sock = s, !.ev = "file-upload-start", !.uploadId = uploadId,
                !.ok = TRUE]

\* ack({ ok: true, received: state.bytesReceived })
AckReceived(s, uploadId, state) ==
  [NoAck EXCEPT !.sock = s, !.ev = "file-upload-chunk", !.uploadId = uploadId,
                !.ok = TRUE, !.received = state.bytesReceived]

\* ack({ ok: true, file: fileMeta })
AckFile(s, uploadId, state) ==
  [NoAck EXCEPT !.sock = s, !.ev = "file-upload-complete",
                !.uploadId = uploadId, !.ok = TRUE, !.hasFile = TRUE,
                !.size = state.bytesReceived,
                !.url = "/uploads/" \o state.filename]

\* the value uuidv4() returns on its n-th call
Uuid(n) == "u" \o ToString(n)

\* the state object of file-upload-start
NewUpload(uploadId, filename, size) ==
  [uploadId |-> uploadId, filename |-> filename, size |-> size,
   bytesReceived |-> 0, closed |-> FALSE]

\* ongoingUploads.set / ongoingUploads.delete
UploadsSet(m, uploadId, state) ==
  [u \in DOMAIN m \cup {uploadId} |-> IF u = uploadId THEN state ELSE m[u]]

UploadsDelete(m, uploadId) == [u \in DOMAIN m \ {uploadId} |-> m[u]]

\* fs.createWriteStream(filepath): not opened yet, nothing queued
NewStream(owner, filename) ==
  [owner |-> owner, file |-> filename, opened |-> FALSE, state |-> "live",
   pending |-> <<>>, ending |-> FALSE, ends |-> 0]

\* writeStream.destroy(): the queued writes and end callbacks are dropped
\* with an error; a stream that has failed already stays failed
DestroyStream(st) ==
  [st EXCEPT !.state = IF @ = "live" THEN "destroyed" ELSE @,
             !.pending = <<>>, !.ends = 0]

\* the write callbacks of a stream that fails or is destroyed: each is
\* called with an error and acknowledges 'Write failed'
FailedWriteAcks(u, st) ==
  [i \in 1..Len(st.pending) |->
     AckError(st.owner, "file-upload-chunk", u, "Write failed")]

\* the end callbacks of a stream: each acknowledges a FileMeta, whether the
\* stream finished or not (the callback does not read its error argument)
EndAcks(u, st, state) ==
  [i \in 1..st.ends |-> AckFile(st.owner, u, state)]

\* fs.unlinkSync(filepath) inside try {} catch {}
Unlink(d, f) == [g \in DOMAIN d \ {f} |-> d[g]]

\* the file f of the uploads directory has length n
WriteFile(d, f, n) == [g \in DOMAIN d \cup {f} |-> IF g = f THEN n ELSE d[g]]

\* the map the upload handlers of connection s close over
OngoingUploads_Shared(s) ==
  [u \in UNION { DOMAIN uploads[t] : t \in DOMAIN uploads } |->
     uploads[CHOOSE t \in DOMAIN uploads : u \in DOMAIN uploads[t]][u]]

OngoingUploads(s) == uploads[s]

\* the cumulative check of file-upload-chunk, against the global cap only
Exceeded_CapOnly(state) == state.bytesReceived > MAX_SOCKET_UPLOAD_BYTES

\* the cumulative check of file-upload-chunk
Exceeded(state) ==
  \/ state.bytesReceived > state.size
  \/ state.bytesReceived > MAX_SOCKET_UPLOAD_BYTES

\* size <= 0 and size > MAX_SOCKET_UPLOAD_BYTES for a size of val bytes
\* (whole) or of val bytes and a fraction of a byte (not whole)
NotPositive(size) == size.val < 0 \/ (size.val = 0 /\ size.whole)

AboveCap(size) ==
  \/ size.val > MAX_SOCKET_UPLOAD_BYTES
  \/ size.val = MAX_SOCKET_UPLOAD_BYTES /\ ~size.whole

\* socket.on('file-upload-start'); filename is what base, Date.now() and
\* Math.random() made; size is the `size` field with its JavaScript type.
\* state.size keeps the whole bytes of size: it is only ever compared with
\* a whole byte count (bytesReceived > size), which a fraction does not
\* change
FileUploadStart(s, roomId, size, filename) ==
  LET effectiveRoomId ==
        ToUpperCase(IF roomId # "" THEN roomId
                    ELSE IF sockets[s].roomId # Undefined
                           THEN sockets[s].roomId ELSE "")
      uploadId == Uuid(uuids + 1)
  IN
  /\ Connected(s)
  /\ last' = [NoEvent EXCEPT !.ev = "file-upload-start", !.sock = s,
                             !.roomId = roomId, !.num = size.val,
                             !.payload = filename,
                             !.flag = (size.type = "number"),
                             !.whole = size.whole]
  /\ res' = NoRes
  /\ UNCHANGED running
  /\ UNCHANGED clients
  /\ out' = EmptyOut
  /\ UNCHANGED <<rooms, sockets, sio, disk>>
  /\ IF effectiveRoomId \notin DOMAIN rooms THEN
       /\ acks' = <<AckError(s, "file-upload-start", "", "Room not found")>>
       /\ UNCHANGED <<uploads, streams, uuids>>
     ELSE IF size.type # "number" \/ NotPositive(size) THEN
       /\ acks' = <<AckError(s, "file-upload-start", "", "Invalid file size")>>
       /\ UNCHANGED <<uploads, streams, uuids>>
     ELSE IF AboveCap(size) THEN
       /\ acks' = <<AckError(s, "file-upload-start", "", "File too large")>>
       /\ UNCHANGED <<uploads, streams, uuids>>
     ELSE
       /\ streams' = UploadsSet(streams, uploadId, NewStream(s, filename))
       /\ uploads' = [uploads EXCEPT ![s] =
                        UploadsSet(@, uploadId,
                                   NewUpload(uploadId, filename, size.val))]
       /\ uuids' = uuids + 1
       /\ acks' = <<AckStarted(s, uploadId)>>

\* the closed check that never finds a session closed
Closed_Never(state) == FALSE

\* the closed check of file-upload-chunk: if (state.closed)
Closed(state) == state.closed

\* socket.on('file-upload-chunk'); chunk.present is the truthiness of
\* data.chunk, chunk.len the length of Buffer.from(chunk)
FileUploadChunk(s, uploadId, chunk) ==
  /\ Connected(s)
  /\ last' = [NoEvent EXCEPT !.ev = "file-upload-chunk", !.sock = s,
                             !.payload = uploadId, !.num = chunk.len,
                             !.flag = chunk.present]
  /\ res' = NoRes
  /\ UNCHANGED running
  /\ UNCHANGED clients
  /\ out' = EmptyOut
  /\ UNCHANGED <<rooms, sockets, sio, uuids>>
  /\ IF uploadId \notin DOMAIN OngoingUploads(s) THEN
       /\ acks' = <<AckError(s, "file-upload-chunk", uploadId, "Unknown uploadId")>>
       /\ UNCHANGED <<uploads, streams, disk>>
     ELSE IF Closed(OngoingUploads(s)[uploadId]) THEN
       /\ acks' = <<AckError(s, "file-upload-chunk", uploadId,
                             "Upload already closed")>>
       /\ UNCHANGED <<uploads, streams, disk>>
     ELSE IF ~chunk.present THEN
       /\ acks' = <<AckError(s, "file-upload-chunk", uploadId, "Empty chunk")>>
       /\ UNCHANGED <<uploads, streams, disk>>
     ELSE
       LET state == [OngoingUploads(s)[uploadId] EXCEPT
                       !.bytesReceived = @ + chunk.len]
           st == streams[uploadId]
       IN  IF Exceeded(state) THEN
             /\ streams' = [streams EXCEPT ![uploadId] = DestroyStream(st)]
             /\ disk' = Unlink(disk, state.filename)
             /\ uploads' = [uploads EXCEPT ![s] = UploadsDelete(@, uploadId)]
             /\ acks' = <<AckError(s, "file-upload-chunk", uploadId,
                                   "File exceeded declared size")>>
                        \o FailedWriteAcks(uploadId, st)
           ELSE IF st.state = "live" THEN
             \* writeStream.write(buffer, cb): queued, cb runs later
             /\ uploads' = [uploads EXCEPT ![s] = UploadsSet(@, uploadId, state)]
             /\ streams' = [streams EXCEPT ![uploadId].pending =
                              Append(@, chunk.len)]
             /\ acks' = <<>>
             /\ UNCHANGED disk
           ELSE
             \* write() on a stream that has failed: cb runs with an error
             /\ uploads' = [uploads EXCEPT ![s] = UploadsSet(@, uploadId, state)]
             /\ acks' = <<AckError(s, "file-upload-chunk", uploadId,
                                   "Write failed")>>
             /\ UNCHANGED <<streams, disk>>

\* socket.on('file-upload-complete')
FileUploadComplete(s, uploadId) ==
  /\ Connected(s)
  /\ last' = [NoEvent EXCEPT !.ev = "file-upload-complete", !.sock = s,
                             !.payload = uploadId]
  /\ res' = NoRes
  /\ UNCHANGED running
  /\ UNCHANGED clients
  /\ out' = EmptyOut
  /\ UNCHANGED <<rooms, sockets, sio, disk, uuids>>
  /\ IF uploadId \notin DOMAIN OngoingUploads(s) THEN
       /\ acks' = <<AckError(s, "file-upload-complete", uploadId,
                             "Unknown uploadId")>>
       /\ UNCHANGED <<uploads, streams>>
     ELSE
       LET state == [OngoingUploads(s)[uploadId] EXCEPT !.closed = TRUE]
           st == streams[uploadId]
       IN  IF st.state = "live" THEN
             \* writeStream.end(cb): cb waits for the stream to finish
             /\ uploads' = [uploads EXCEPT ![s] = UploadsSet(@, uploadId, state)]
             /\ streams' = [streams EXCEPT ![uploadId].ending = TRUE,
                                           ![uploadId].ends = @ + 1]
             /\ acks' = <<>>
           ELSE
             \* end(cb) on a stream that has failed: cb runs with an error
             /\ uploads' = [uploads EXCEPT ![s] = UploadsDelete(@, uploadId)]
             /\ acks' = <<AckFile(s, uploadId, state)>>
             /\ UNCHANGED streams

\* the asynchronous open of a write stream completes: the file exists, empty
StreamOpened(u) ==
  /\ u \in DOMAIN streams
  /\ ~streams[u].opened
  /\ streams' = [streams EXCEPT ![u].opened = TRUE]
  /\ disk' = WriteFile(disk, streams[u].file, 0)
  /\ last' = [NoEvent EXCEPT !.ev = "stream-open", !.payload = u]
  /\ res' = NoRes
  /\ UNCHANGED running
  /\ UNCHANGED clients
  /\ out' = EmptyOut
  /\ acks' = <<>>
  /\ UNCHANGED <<rooms, sockets, sio, uploads, uuids>>

\* the oldest queued write of a stream succeeds and its callback runs,
\* reading state.bytesReceived as it is by then
WriteDone(u) ==
  /\ u \in DOMAIN streams
  /\ streams[u].opened /\ streams[u].state = "live"
  /\ streams[u].pending # <<>>
  /\ LET st == streams[u]
     IN  /\ streams' = [streams EXCEPT ![u].pending = Tail(@)]
         /\ disk' = IF st.file \in DOMAIN disk
                      THEN WriteFile(disk, st.file, disk[st.file] + Head(st.pending))
                      ELSE disk
         /\ acks' = <<AckReceived(st.owner, u, uploads[st.owner][u])>>
  /\ last' = [NoEvent EXCEPT !.ev = "write-done", !.payload = u]
  /\ res' = NoRes
  /\ UNCHANGED running
  /\ UNCHANGED clients
  /\ out' = EmptyOut
  /\ UNCHANGED <<rooms, sockets, sio, uploads, uuids>>

\* the oldest queued write of a stream fails: its callback, the callbacks
\* of the writes queued behind it and the end callbacks run with the error
WriteFailed(u) ==
  /\ u \in DOMAIN streams
  /\ streams[u].opened /\ streams[u].state = "live"
  /\ streams[u].pending # <<>>
  /\ LET st == streams[u]
     IN  /\ streams' = [streams EXCEPT ![u].state = "failed",
                                       ![u].pending = <<>>, ![u].ends = 0]
         /\ acks' = FailedWriteAcks(u, st)
                    \o EndAcks(u, st, uploads[st.owner][u])
         /\ uploads' = IF st.ends > 0
                         THEN [uploads EXCEPT ![st.owner] = UploadsDelete(@, u)]
                         ELSE uploads
  /\ last' = [NoEvent EXCEPT !.ev = "write-failed", !.payload = u]
  /\ res' = NoRes
  /\ UNCHANGED running
  /\ UNCHANGED clients
  /\ out' = EmptyOut
  /\ UNCHANGED <<rooms, sockets, sio, disk, uuids>>

\* writeStream.on('error'): the listener of file-upload-start
StreamError(u) ==
  /\ u \in DOMAIN streams
  /\ streams[u].state = "failed"
  /\ LET st == streams[u]
     IN  /\ streams' = [streams EXCEPT ![u].state = "errored"]
         /\ disk' = Unlink(disk, st.file)
         /\ uploads' = [uploads EXCEPT ![st.owner] = UploadsDelete(@, u)]
         /\ out' = IF Connected(st.owner)
                     THEN Emit(EmptyOut, st.owner,
                            [Msg("file-upload-error") EXCEPT
                               !.payload = u, !.message = "Write failed"])
                     ELSE EmptyOut
  /\ last' = [NoEvent EXCEPT !.ev = "stream-error", !.payload = u]
  /\ res' = NoRes
  /\ UNCHANGED running
  /\ UNCHANGED clients
  /\ acks' = <<>>
  /\ UNCHANGED <<rooms, sockets, sio, uuids>>

\* a stream that was ended has written everything queued and finishes: the
\* end callbacks run
StreamFinished(u) ==
  /\ u \in DOMAIN streams
  /\ streams[u].opened /\ streams[u].state = "live"
  /\ streams[u].ending /\ streams[u].pending = <<>>
  /\ LET st == streams[u]
     IN  /\ streams' = [streams EXCEPT ![u].state = "finished", ![u].ends = 0]
         /\ acks' = EndAcks(u, st, uploads[st.owner][u])
         /\ uploads' = [uploads EXCEPT ![st.owner] = UploadsDelete(@, u)]
  /\ last' = [NoEvent EXCEPT !.ev = "stream-finish", !.payload = u]
  /\ res' = NoRes
  /\ UNCHANGED running
  /\ UNCHANGED clients
  /\ out' = EmptyOut
  /\ UNCHANGED <<rooms, sockets, sio, disk, uuids>>

----------------------------------------------------------------------------
(* socket.on('disconnect'): socket.io has already removed the socket from  *)
(* every room it had joined when the handler runs.                         *)

Disconnect(s) ==
  LET id == sockets[s].roomId
      left == [sio EXCEPT ![s] = {}]
  IN
  /\ Connected(s)
  /\ sockets' = [sockets EXCEPT ![s] = DeadSocket]
  /\ sio' = left
  /\ res' = NoRes
  /\ UNCHANGED running
  /\ UNCHANGED clients
  /\ last' = [NoEvent EXCEPT !.ev = "disconnect", !.sock = s]
  \* ongoingUploads.forEach(destroy, unlinkSync); ongoingUploads.clear();
  \* the callbacks of the destroyed streams answer a closed connection
  /\ streams' = [u \in DOMAIN streams |->
                   IF u \in DOMAIN uploads[s] THEN DestroyStream(streams[u])
                                               ELSE streams[u]]
  /\ disk' = [f \in DOMAIN disk \
                    { uploads[s][u].filename : u \in DOMAIN uploads[s] }
                |-> disk[f]]
  /\ uploads' = [uploads EXCEPT ![s] = << >>]
  /\ acks' = <<>>
  /\ UNCHANGED uuids
  /\ IF id # Undefined /\ id \in DOMAIN rooms THEN
       LET room == RemoveParticipant(rooms[id], s)
       IN  /\ out' = BroadcastFrom(EmptyOut, left, s, id,
                       [Msg("user-left") EXCEPT !.socketId = s,
                                                !.nickname = sockets[s].nickname])
           /\ rooms' = IF Len(room.participants) = 0
                         THEN RoomsDelete(rooms, id)
                         ELSE [rooms EXCEPT ![id] = room]
     ELSE
       /\ out' = EmptyOut
       /\ UNCHANGED rooms

----------------------------------------------------------------------------
(* WebRTC signaling *)

\* socket.on('offer') and socket.on('answer'): data.to is not read
Relay(ev, s, roomId, to, payload) ==
  /\ Connected(s)
  /\ out' = BroadcastFrom(EmptyOut, sio, s, roomId,
              [Msg(ev) EXCEPT !.payload = payload, !.socketId = s])
  /\ res' = NoRes
  /\ UNCHANGED running
  /\ UNCHANGED clients
  /\ last' = [NoEvent EXCEPT !.ev = ev, !.sock = s, !.roomId = roomId,
                             !.to = to, !.payload = payload]
  /\ acks' = <<>>
  /\ UNCHANGED <<rooms, sockets, sio>>
  /\ UNCHANGED ioVars

Offer(s, roomId, to, payload) == Relay("offer", s, roomId, to, payload)

Answer(s, roomId, to, payload) == Relay("answer", s, roomId, to, payload)

\* An event the server registers no handler for is discarded by socket.io:
\* screen-share-offer, screen-share-answer, screen-share-start,
\* screen-share-stop.
Unhandled(ev, s, roomId, to, payload) ==
  /\ Connected(s)
  /\ out' = EmptyOut
  /\ res' = NoRes
  /\ UNCHANGED running
  /\ UNCHANGED clients
  /\ last' = [NoEvent EXCEPT !.ev = ev, !.sock = s, !.roomId = roomId,
                             !.to = to, !.payload = payload]
  /\ acks' = <<>>
  /\ UNCHANGED <<rooms, sockets, sio>>
  /\ UNCHANGED ioVars

ScreenShareOffer(s, roomId, to, payload) ==
  Unhandled("screen-share-offer", s, roomId, to, payload)

ScreenShareAnswer(s, roomId, to, payload) ==
  Unhandled("screen-share-answer", s, roomId, to, payload)

ScreenShareStart(s, roomId) ==
  Unhandled("screen-share-start", s, roomId, "", "")

ScreenShareStop(s, roomId) ==
  Unhandled("screen-share-stop", s, roomId, "", "")

----------------------------------------------------------------------------
(* Chat and the media controls *)

\* io.to(room).emit(ev, m): to every socket in the socket.io room
IoTo(o, members, room, m) ==
  [t \in DOMAIN o |-> IF room \in members[t] THEN Append(o[t], m) ELSE o[t]]

\* the message object of the chat-message handler; file "" is null
ChatRecord(id, s, nickname, message, file) ==
  [id |-> id, socketId |-> s, nickname |-> nickname, message |-> message,
   file |-> file]

\* a log that takes the new record in front
Push_Front(messages, record) == <<record>> \o messages

\* room.messages.push(message)
Push(messages, record) == Append(messages, record)

\* the chat-message event that carries a message object
ChatMsg(record) ==
  [Msg("chat-message") EXCEPT !.id = record.id, !.socketId = record.socketId,
                              !.nickname = record.nickname,
                              !.message = record.message,
                              !.payload = record.file]

\* socket.on('chat-message')
ChatMessage(s, message, file) ==
  LET roomId == sockets[s].roomId
      record == ChatRecord(Uuid(uuids + 1), s, sockets[s].nickname, message, file)
  IN
  /\ Connected(s)
  /\ last' = [NoEvent EXCEPT !.ev = "chat-message", !.sock = s,
                             !.nickname = message, !.payload = file]
  /\ res' = NoRes
  /\ UNCHANGED running
  /\ UNCHANGED clients
  /\ acks' = <<>>
  /\ UNCHANGED <<sockets, sio, uploads, streams, disk>>
  /\ IF roomId \in DOMAIN rooms THEN
       /\ rooms' = [rooms EXCEPT ![roomId].messages = Push(@, record)]
       /\ out' = IoTo(EmptyOut, sio, roomId, ChatMsg(record))
       /\ uuids' = uuids + 1
     ELSE
       /\ out' = EmptyOut
       /\ UNCHANGED <<rooms, uuids>>

\* room.participants.get(socket.id).<field> = value
SetIsMuted(room, s, value) ==
  [room EXCEPT !.participants =
     [i \in 1..Len(@) |-> IF @[i].socketId = s
                            THEN [@[i] EXCEPT !.isMuted = value] ELSE @[i]]]

SetIsHandRaised(room, s, value) ==
  [room EXCEPT !.participants =
     [i \in 1..Len(@) |-> IF @[i].socketId = s
                            THEN [@[i] EXCEPT !.isHandRaised = value] ELSE @[i]]]

\* socket.on('toggle-mute')
ToggleMute(s, isMuted) ==
  LET roomId == sockets[s].roomId
  IN
  /\ Connected(s)
  /\ last' = [NoEvent EXCEPT !.ev = "toggle-mute", !.sock = s, !.flag = isMuted]
  /\ res' = NoRes
  /\ UNCHANGED running
  /\ UNCHANGED clients
  /\ acks' = <<>>
  /\ UNCHANGED <<sockets, sio>>
  /\ UNCHANGED ioVars
  /\ IF roomId \in DOMAIN rooms /\ Has(rooms[roomId], s) THEN
       /\ rooms' = [rooms EXCEPT ![roomId] = SetIsMuted(@, s, isMuted)]
       /\ out' = BroadcastFrom(EmptyOut, sio, s, roomId,
                   [Msg("user-mute-changed") EXCEPT !.socketId = s,
                                                    !.flag = isMuted])
     ELSE
       /\ out' = EmptyOut
       /\ UNCHANGED rooms

\* socket.on('toggle-raise-hand')
ToggleRaiseHand(s, isHandRaised) ==
  LET roomId == sockets[s].roomId
  IN
  /\ Connected(s)
  /\ last' = [NoEvent EXCEPT !.ev = "toggle-raise-hand", !.sock = s,
                             !.flag = isHandRaised]
  /\ res' = NoRes
  /\ UNCHANGED running
  /\ UNCHANGED clients
  /\ acks' = <<>>
  /\ UNCHANGED <<sockets, sio>>
  /\ UNCHANGED ioVars
  /\ IF roomId \in DOMAIN rooms /\ Has(rooms[roomId], s) THEN
       /\ rooms' = [rooms EXCEPT ![roomId] = SetIsHandRaised(@, s, isHandRaised)]
       /\ out' = BroadcastFrom(EmptyOut, sio, s, roomId,
                   [Msg("user-hand-raised") EXCEPT !.socketId = s,
                                                   !.flag = isHandRaised,
                                                   !.nickname = sockets[s].nickname])
     ELSE
       /\ out' = EmptyOut
       /\ UNCHANGED rooms

----------------------------------------------------------------------------
(* Events whose payload is missing.  socket.io calls a listener from a     *)
(* process.nextTick callback and catches nothing: an exception that a      *)
(* listener throws is an uncaught exception, and the server installs no    *)
(* 'uncaughtException' handler, so Node prints the error and the process   *)
(* exits.  A missing payload or field is marked Undefined in `last`.       *)

\* the process exits: its memory (rooms, upload sessions) and its
\* connections are gone, its write streams are closed, the files stay
UncaughtException(ev) ==
  /\ running' = FALSE
  /\ UNCHANGED clients
  /\ rooms' = << >>
  /\ sockets' = [t \in DOMAIN sockets |->
                   IF Connected(t) THEN DeadSocket ELSE sockets[t]]
  /\ sio' = [t \in DOMAIN sio |-> {}]
  /\ uploads' = [t \in DOMAIN uploads |-> << >>]
  /\ streams' = [u \in DOMAIN streams |-> DestroyStream(streams[u])]
  /\ out' = EmptyOut
  /\ res' = NoRes
  /\ acks' = <<>>
  /\ last' = ev
  /\ UNCHANGED <<disk, uuids>>

\* the handler returns without having done anything
Dropped(ev) ==
  /\ out' = EmptyOut
  /\ res' = NoRes
  /\ acks' = <<>>
  /\ last' = ev
  /\ UNCHANGED <<rooms, sockets, sio, running, clients>>
  /\ UNCHANGED ioVars

\* join-room without a payload: const { roomId, nickname } = undefined
\* throws a TypeError
JoinRoomNoData(s) ==
  /\ Connected(s)
  /\ UncaughtException([NoEvent EXCEPT !.ev = "join-room", !.sock = s,
                                       !.payload = Undefined])

\* join-room { nickname }: roomId.toUpperCase() on undefined throws a
\* TypeError
JoinRoomNoRoomId(s, nickname) ==
  /\ Connected(s)
  /\ UncaughtException([NoEvent EXCEPT !.ev = "join-room", !.sock = s,
                                       !.roomId = Undefined,
                                       !.nickname = nickname])

\* chat-message without a payload: data.message is read once the room of
\* the connection is found
ChatMessageNoData(s) ==
  LET ev == [NoEvent EXCEPT !.ev = "chat-message", !.sock = s,
                            !.payload = Undefined]
  IN  /\ Connected(s)
      /\ IF sockets[s].roomId \in DOMAIN rooms
           THEN UncaughtException(ev)
           ELSE Dropped(ev)

\* toggle-mute / toggle-raise-hand without a payload: data.isMuted /
\* data.isHandRaised is read once the guard has passed
ToggleNoData(name, s) ==
  LET ev == [NoEvent EXCEPT !.ev = name, !.sock = s, !.payload = Undefined]
      roomId == sockets[s].roomId
  IN  /\ Connected(s)
      /\ IF roomId \in DOMAIN rooms /\ Has(rooms[roomId], s)
           THEN UncaughtException(ev)
           ELSE Dropped(ev)

ToggleMuteNoData(s) == ToggleNoData("toggle-mute", s)

ToggleRaiseHandNoData(s) == ToggleNoData("toggle-raise-hand", s)

\* offer / answer without a payload: data.roomId throws a TypeError
RelayNoData(name, s) ==
  /\ Connected(s)
  /\ UncaughtException([NoEvent EXCEPT !.ev = name, !.sock = s,
                                       !.payload = Undefined])

OfferNoData(s) == RelayNoData("offer", s)

AnswerNoData(s) == RelayNoData("answer", s)

----------------------------------------------------------------------------------------------------------------------------------------
(* The general specification: every input of the registry handlers.  The   *)
(* code generator (uuid) yields a code that is not registered.             *)

Next ==
  \/ \E c \in Codes \ DOMAIN rooms, h \in HostIdInputs : CreateRoom(c, h)
  \/ \E id \in RawIds : GetRoom(id)
  \/ \E s \in SocketIds : Connect(s)
  \/ \E s \in SocketIds, id \in RawIds, n \in Nicknames : JoinRoom(s, id, n)
  \/ \E s \in SocketIds : Disconnect(s)

Spec == Init /\ [][Next]_vars

----------------------------------------------------------------------------
(* The capacity specification: one room, NumCapSockets connections that    *)
(* arrive one after the other, each under its own nickname; a participant  *)
(* may ask to join again under any nickname, a connection outside the room *)
(* may ask to join under the nickname of its first participant.            *)

CapRoom == "R1"

InitCap == InitWith(CapSocketIds)

\* connection i arrives once the connections before it have arrived and
\* none of them is still waiting outside the room
MayArrive(i) ==
  /\ \A j \in 1..(i - 1) : sockets[SocketName(j)].status # "new"
  /\ \A t \in CapSocketIds :
       Connected(t) => CapRoom \in DOMAIN rooms /\ Has(rooms[CapRoom], t)

MayClose ==
  Cardinality({t \in CapSocketIds : sockets[t].status = "disconnected"})
    < MaxCapClosed

NextCap ==
  \/ CapRoom \notin DOMAIN rooms /\ CreateRoom(CapRoom, "")
  \/ \E i \in 1..NumCapSockets : MayArrive(i) /\ Connect(SocketName(i))
  \/ \E s \in CapSocketIds : JoinRoom(s, CapRoom, NickOf(s))
  \/ \E s \in CapSocketIds, n \in Nicknames :
       /\ CapRoom \in DOMAIN rooms /\ Has(rooms[CapRoom], s)
       /\ JoinRoom(s, CapRoom, n)
  \/ \E s \in CapSocketIds :
       /\ CapRoom \in DOMAIN rooms /\ ~Has(rooms[CapRoom], s)
       /\ Len(rooms[CapRoom].participants) > 0
       /\ JoinRoom(s, CapRoom, rooms[CapRoom].participants[1].nickname)
  \/ \E s \in CapSocketIds : MayClose /\ Disconnect(s)

SpecCap == InitCap /\ [][NextCap]_vars

----------------------------------------------------------------------------
(* The signaling specification: NumSignalSockets connections, each under   *)
(* its own nickname, joining by canonical codes, and every signaling event.*)

InitSignal == InitWith(SignalSocketIds)

NextSignal ==
  \/ \E c \in Codes \ DOMAIN rooms : CreateRoom(c, "")
  \/ \E s \in SignalSocketIds : Connect(s)
  \/ \E s \in SignalSocketIds, id \in Codes : JoinRoom(s, id, NickOf(s))
  \/ \E s \in SignalSocketIds : Disconnect(s)
  \/ \E s \in SignalSocketIds :
       \E t \in SignalSocketIds \ {s}, id \in Codes, p \in Payloads :
          Offer(s, id, t, p)
  \/ \E s \in SignalSocketIds :
       \E t \in SignalSocketIds \ {s}, id \in Codes, p \in Payloads :
          Answer(s, id, t, p)
  \/ \E s \in SignalSocketIds :
       \E t \in SignalSocketIds \ {s}, id \in Codes, p \in Payloads :
          ScreenShareOffer(s, id, t, p)
  \/ \E s \in SignalSocketIds :
       \E t \in SignalSocketIds \ {s}, id \in Codes, p \in Payloads :
          ScreenShareAnswer(s, id, t, p)
  \/ \E s \in SignalSocketIds, id \in Codes : ScreenShareStart(s, id)
  \/ \E s \in SignalSocketIds, id \in Codes : ScreenShareStop(s, id)

SpecSignal == InitSignal /\ [][NextSignal]_vars

----------------------------------------------------------------------------
(* The chat specification: NumChatSockets connections, each under its own  *)
(* nickname, joining by any spelling of a code, chatting and toggling.     *)

InitChat == InitWith(ChatSocketIds)

NextChat ==
  \/ \E c \in Codes \ DOMAIN rooms : CreateRoom(c, "")
  \/ \E s \in ChatSocketIds : Connect(s)
  \/ \E s \in ChatSocketIds, id \in RawIds : JoinRoom(s, id, NickOf(s))
  \/ \E s \in ChatSocketIds : Disconnect(s)
  \/ \E s \in ChatSocketIds, m \in ChatTexts, f \in ChatFiles :
       uuids < MaxMessages /\ ChatMessage(s, m, f)

SpecChat == InitChat /\ [][NextChat]_vars

----------------------------------------------------------------------------
(* The upload specification: NumUploadSockets connections, one room, at    *)
(* most MaxUploads uploads, every upload event with valid and invalid      *)
(* arguments, and every step of the write streams.                         *)

UploadRoom == "R1"

InitUpload == InitWith(UploadSocketIds)

\* the upload ids the server can have handed out
UploadIds == { Uuid(i) : i \in 1..MaxUploads }

\* data.size of file-upload-start with its JavaScript type; the one that
\* is not whole is half a byte
SizeInputs ==
  { [type |-> "number", val |-> DeclaredSize, whole |-> TRUE],
    [type |-> "number", val |-> 0, whole |-> TRUE],
    [type |-> "number", val |-> 0, whole |-> FALSE],
    [type |-> "number", val |-> MAX_SOCKET_UPLOAD_BYTES + 1, whole |-> TRUE],
    [type |-> "string", val |-> DeclaredSize, whole |-> TRUE] }

\* data.chunk of file-upload-chunk: missing, or a buffer
ChunkInputs ==
  { [present |-> FALSE, len |-> 0],
    [present |-> TRUE, len |-> ChunkSmall],
    [present |-> TRUE, len |-> ChunkLarge] }

\* the file name of the next upload: a name no earlier upload was given
\* (names that repeat are left to the file-name specification)
FreshFileName == "f" \o ToString(Cardinality(DOMAIN streams) + 1)

NextUpload ==
  \/ UploadRoom \notin DOMAIN rooms /\ CreateRoom(UploadRoom, "")
  \/ \E s \in UploadSocketIds : Connect(s)
  \/ \E s \in UploadSocketIds : JoinRoom(s, UploadRoom, NickOf(s))
  \/ \E s \in UploadSocketIds : Disconnect(s)
  \/ \E s \in UploadSocketIds, id \in UploadRoomIds, size \in SizeInputs :
       /\ Cardinality(DOMAIN streams) < MaxUploads
       /\ FileUploadStart(s, id, size, FreshFileName)
  \/ \E s \in UploadSocketIds, u \in UploadIds, c \in ChunkInputs :
       FileUploadChunk(s, u, c)
  \/ \E s \in UploadSocketIds, u \in UploadIds :
       /\ u \in DOMAIN streams => streams[u].ends < MaxEnds
       /\ FileUploadComplete(s, u)
  \/ \E u \in UploadIds : StreamOpened(u)
  \/ \E u \in UploadIds : WriteDone(u)
  \/ \E u \in UploadIds : WriteFailed(u)
  \/ \E u \in UploadIds : StreamError(u)
  \/ \E u \in UploadIds : StreamFinished(u)

SpecUpload == InitUpload /\ [][NextUpload]_vars

----------------------------------------------------------------------------
(* The letter-case specification: one room, NumCaseSockets connections     *)
(* that join it under either spelling of its code, then chat, toggle and   *)
(* disconnect.                                                             *)

CaseRoom == "R1"
\* the spellings of the code of CaseRoom
CaseIds == { id \in RawIds : ToUpperCase(id) = CaseRoom }

InitCase == InitWith(CaseSocketIds)

NextCase ==
  \/ CaseRoom \notin DOMAIN rooms /\ CreateRoom(CaseRoom, "")
  \/ \E s \in CaseSocketIds : Connect(s)
  \/ \E s \in CaseSocketIds, id \in CaseIds : JoinRoom(s, id, NickOf(s))
  \/ \E s \in CaseSocketIds : Disconnect(s)
  \/ \E s \in CaseSocketIds, m \in ChatTexts :
       uuids < MaxMessages /\ ChatMessage(s, m, "")
  \/ \E s \in CaseSocketIds, b \in BOOLEAN : ToggleMute(s, b)
  \/ \E s \in CaseSocketIds, b \in BOOLEAN : ToggleRaiseHand(s, b)

SpecCase == InitCase /\ [][NextCase]_vars

----------------------------------------------------------------------------
(* The protocol specification: one room, NumProtoSockets connections that  *)
(* join it or stay outside and send chat and toggle events with their      *)
(* payload and every event without it.  A process that has exited handles  *)
(* nothing.                                                                *)

ProtoRoom == "R1"

InitProto == InitWith(ProtoSocketIds)

NextProto ==
  /\ running
  /\ \/ ProtoRoom \notin DOMAIN rooms /\ CreateRoom(ProtoRoom, "")
     \/ \E s \in ProtoSocketIds : Connect(s)
     \/ \E s \in ProtoSocketIds : JoinRoom(s, ProtoRoom, NickOf(s))
     \/ \E s \in ProtoSocketIds : Disconnect(s)
     \/ \E s \in ProtoSocketIds, b \in BOOLEAN : ToggleMute(s, b)
     \/ \E s \in ProtoSocketIds : ToggleRaiseHand(s, TRUE)
     \/ \E s \in ProtoSocketIds :
          uuids < MaxProtoMessages /\ ChatMessage(s, "hi", "")
     \/ \E s \in ProtoSocketIds : JoinRoomNoData(s)
     \/ \E s \in ProtoSocketIds : JoinRoomNoRoomId(s, NickOf(s))
     \/ \E s \in ProtoSocketIds : ChatMessageNoData(s)
     \/ \E s \in ProtoSocketIds : ToggleMuteNoData(s)
     \/ \E s \in ProtoSocketIds : ToggleRaiseHandNoData(s)
     \/ \E s \in ProtoSocketIds : OfferNoData(s)
     \/ \E s \in ProtoSocketIds : AnswerNoData(s)

SpecProto == InitProto /\ [][NextProto]_vars

----------------------------------------------------------------------------
(* The file-name specification: one room, NumFileSockets connections, at   *)
(* most MaxFileUploads uploads of the declared size.  The name of the file *)
(* of an upload is what path.basename(originalName), Date.now() and        *)
(* Math.random() make of the request: nothing in the handler compares it   *)
(* with the names in use, and two requests with the same originalName that *)
(* are handled in the same millisecond and draw the same random number get *)
(* the same name.                                                          *)

FileRoom == "R1"

\* the names the generator can produce
FileNames == {"f1", "f2"}

FileUploadIds == { Uuid(i) : i \in 1..MaxFileUploads }

InitFiles == InitWith(FileSocketIds)

NextFiles ==
  \/ FileRoom \notin DOMAIN rooms /\ CreateRoom(FileRoom, "")
  \/ \E s \in FileSocketIds : Connect(s)
  \/ \E s \in FileSocketIds : Disconnect(s)
  \/ \E s \in FileSocketIds, f \in FileNames :
       /\ Cardinality(DOMAIN streams) < MaxFileUploads
       /\ FileUploadStart(s, FileRoom,
                          [type |-> "number", val |-> DeclaredSize,
                           whole |-> TRUE], f)
  \/ \E s \in FileSocketIds, u \in FileUploadIds :
       /\ u \in DOMAIN streams => streams[u].ends < 1
       /\ FileUploadComplete(s, u)
  \/ \E u \in FileUploadIds : StreamOpened(u)
  \/ \E u \in FileUploadIds : StreamFinished(u)

SpecFiles == InitFiles /\ [][NextFiles]_vars

----------------------------------------------------------------------------
(* Vocabulary of the properties *)

\* the codes of the registered rooms that hold connection s as a participant
RoomsOf(m, s) == { c \in DOMAIN m : Has(m[c], s) }

\* the events of kind ev that the last handler delivered to connection t
Delivered(o, t, ev) == SelectSeq(o[t], LAMBDA m : m.ev = ev)

\* the last handler delivered nothing to anybody
Silent(o) == \A t \in DOMAIN o : o[t] = <<>>

\* the step is a join-room of connection s that made it a participant of c
JoinedStep(s, c) ==
  /\ last'.ev = "join-room" /\ last'.sock = s
  /\ c = ToUpperCase(last'.roomId)
  /\ c \in DOMAIN rooms /\ ~Has(rooms[c], s)
  /\ c \in DOMAIN rooms' /\ Has(rooms'[c], s)

\* reading participant.isScreenSharing: undefined (falsy) where never set
IsScreenSharing(p) ==
  IF "isScreenSharing" \in DOMAIN p THEN p.isScreenSharing ELSE FALSE

Sharers(room) ==
  { i \in 1..Len(room.participants) : IsScreenSharing(room.participants[i]) }

----------------------------------------------------------------------------
(* C1: every room has at most 10 participants, and a join-room from a      *)
(* connection that is not in the room, to a room that holds 10, is         *)
(* answered with error 'Room is full', adds no participant and broadcasts  *)
(* no user-joined.                                                         *)

FullRoomJoinRejected ==
  \A c \in DOMAIN rooms :
    ( /\ last'.ev = "join-room"
      /\ ToUpperCase(last'.roomId) = c
      /\ ~Has(rooms[c], last'.sock)
      /\ Len(rooms[c].participants) >= MAX_PARTICIPANTS )
    => /\ out'[last'.sock] = <<ErrorMsg("Room is full")>>
       /\ rooms' = rooms
       /\ \A t \in DOMAIN out' : Delivered(out', t, "user-joined") = <<>>

C1_Capacity ==
  /\ [](\A c \in DOMAIN rooms : Len(rooms[c].participants) <= MAX_PARTICIPANTS)
  /\ [][FullRoomJoinRejected]_vars

\* an eleventh connection was just refused by a room that holds ten
C1_Witness ==
  /\ last.ev = "join-room"
  /\ out[last.sock] = <<ErrorMsg("Room is full")>>
  /\ ToUpperCase(last.roomId) \in DOMAIN rooms
  /\ Len(rooms[ToUpperCase(last.roomId)].participants) = MAX_PARTICIPANTS
  /\ ~Has(rooms[ToUpperCase(last.roomId)], last.sock)

----------------------------------------------------------------------------
(* C2: the nicknames of the participants of any one room are pairwise      *)
(* distinct, after any interleaving of join-room and disconnect.           *)

C2_NicknamesDistinct ==
  \A c \in DOMAIN rooms :
    \A i, j \in 1..Len(rooms[c].participants) :
      i # j => rooms[c].participants[i].nickname # rooms[c].participants[j].nickname

\* a join under a nickname that a participant of the room holds was refused,
\* in a room of two participants, after some connection had closed
C2_Witness ==
  /\ last.ev = "join-room"
  /\ out[last.sock] = <<ErrorMsg("Nickname already taken")>>
  /\ \E s \in DOMAIN sockets : sockets[s].status = "disconnected"
  /\ \E i \in 1..Len(rooms[ToUpperCase(last.roomId)].participants) :
       rooms[ToUpperCase(last.roomId)].participants[i].nickname = last.nickname

----------------------------------------------------------------------------
(* C3: every room that has at least one participant has exactly one host   *)
(* and that host is one of the room's current participants.                *)

C3_HostIsParticipant ==
  \A c \in DOMAIN rooms :
    Len(rooms[c].participants) >= 1 => rooms[c].hostId \in ParticipantIds(rooms[c])

----------------------------------------------------------------------------
(* C4: a connection that successfully joins a room that has no host among  *)
(* its participants becomes the room's host and its room-joined carries    *)
(* isHost = true; a later joiner receives isHost = false while that host   *)
(* stays.                                                                  *)

C4_JoinStep ==
  \A s \in DOMAIN sockets, c \in Codes :
    JoinedStep(s, c) =>
      LET joined == Delivered(out', s, "room-joined")
      IN  /\ Len(joined) = 1
          /\ IF rooms[c].hostId \in ParticipantIds(rooms[c])
               THEN /\ joined[1].flag = FALSE
                    /\ rooms'[c].hostId = rooms[c].hostId
               ELSE /\ joined[1].flag = TRUE
                    /\ rooms'[c].hostId = s

C4_FirstJoinerBecomesHost == [][C4_JoinStep]_vars

----------------------------------------------------------------------------
(* C5: after a connection that had joined a room disconnects, it is a      *)
(* participant of no room, and every participant remaining in that room    *)
(* receives exactly one user-left naming it.                               *)

C5_DisconnectStep ==
  \A s \in DOMAIN sockets :
    (last'.ev = "disconnect" /\ last'.sock = s /\ RoomsOf(rooms, s) # {}) =>
      /\ RoomsOf(rooms', s) = {}
      /\ \A c \in RoomsOf(rooms, s) :
           \A t \in ParticipantIds(rooms[c]) \ {s} :
             Connected(t) =>
               LET got == Delivered(out', t, "user-left")
               IN  Len(got) = 1 /\ got[1].socketId = s

C5_DisconnectLeaves == [][C5_DisconnectStep]_vars

----------------------------------------------------------------------------
(* C6: once the last participant of a room has left, the room is destroyed *)
(* and its code is not resolvable: GET /api/room/:id answers not-found and *)
(* a join-room on that code is answered 'Room not found'.                  *)

\* no participant of the room but s is a live connection
LastLive(room, s) ==
  \A t \in ParticipantIds(room) \ {s} : ~Connected(t)

C6_LastLeaveStep ==
  \A s \in DOMAIN sockets :
    (last'.ev = "disconnect" /\ last'.sock = s) =>
      \A c \in RoomsOf(rooms, s) :
        LastLive(rooms[c], s) =>
          /\ c \notin DOMAIN rooms'
          /\ GetRoomResponse(rooms', c).status = 404

C6_EmptyRoomDestroyed == [][C6_LastLeaveStep]_vars

----------------------------------------------------------------------------
(* C7: a connection is a participant of at most one room at any time.      *)

C7_OneRoomPerConnection ==
  \A s \in DOMAIN sockets : Cardinality(RoomsOf(rooms, s)) <= 1

----------------------------------------------------------------------------
(* C8: an offer, answer, screen-share-offer or screen-share-answer with    *)
(* target `to` is delivered to connection `to` only, as the same event     *)
(* with from = the sender and the payload unchanged.                       *)

SignalEvents == {"offer", "answer", "screen-share-offer", "screen-share-answer"}

C8_RelayStep ==
  \A c \in DOMAIN rooms :
    ( /\ last'.ev \in SignalEvents
      /\ ToUpperCase(last'.roomId) = c
      /\ Has(rooms[c], last'.sock) /\ Has(rooms[c], last'.to)
      /\ Connected(last'.to) /\ last'.to # last'.sock )
    => /\ out'[last'.to] =
            << [Msg(last'.ev) EXCEPT !.payload = last'.payload,
                                     !.socketId = last'.sock] >>
       /\ \A u \in DOMAIN out' \ {last'.to} : out'[u] = <<>>

C8_RelayedToTargetOnly == [][C8_RelayStep]_vars

----------------------------------------------------------------------------
(* C9: an offer or answer naming room R is relayed only if its sender is a *)
(* participant of R; from an unbound connection, or one bound to another   *)
(* room, it is delivered to nobody.                                        *)

C9_SenderStep ==
  ( /\ last'.ev \in {"offer", "answer"}
    /\ LET c == ToUpperCase(last'.roomId)
       IN  c \notin DOMAIN rooms \/ ~Has(rooms[c], last'.sock) )
  => Silent(out')

C9_SenderMustBeParticipant == [][C9_SenderStep]_vars

----------------------------------------------------------------------------
(* C10: at most one participant per room has screen-sharing = true: a      *)
(* screen-share-start from a participant sets its own flag and clears the  *)
(* flag of every other participant of the room, and a screen-share-stop    *)
(* clears the sender's flag.                                               *)

C10_ShareStep ==
  \A c \in DOMAIN rooms :
    ( /\ last'.ev = "screen-share-start"
      /\ ToUpperCase(last'.roomId) = c
      /\ Has(rooms[c], last'.sock) )
    => /\ c \in DOMAIN rooms'
       /\ \A i \in 1..Len(rooms'[c].participants) :
            IsScreenSharing(rooms'[c].participants[i])
              <=> rooms'[c].participants[i].socketId = last'.sock

C10_StopStep ==
  \A c \in DOMAIN rooms :
    ( /\ last'.ev = "screen-share-stop"
      /\ ToUpperCase(last'.roomId) = c
      /\ Has(rooms[c], last'.sock) )
    => /\ c \in DOMAIN rooms'
       /\ \A i \in 1..Len(rooms'[c].participants) :
            rooms'[c].participants[i].socketId = last'.sock
              => ~IsScreenSharing(rooms'[c].participants[i])

C10_SingleSharer ==
  /\ [](\A c \in DOMAIN rooms : Cardinality(Sharers(rooms[c])) <= 1)
  /\ [][C10_ShareStep /\ C10_StopStep]_vars

----------------------------------------------------------------------------
(* C11: a screen-share-start or screen-share-stop sent by a participant of *)
(* a room is delivered, once, to every other connected participant of that *)
(* room (so that every recipient sees the room's start and stop events in  *)
(* the order the server handled them).                                     *)

C11_ShareEventStep ==
  \A c \in DOMAIN rooms :
    ( /\ last'.ev \in {"screen-share-start", "screen-share-stop"}
      /\ ToUpperCase(last'.roomId) = c
      /\ Has(rooms[c], last'.sock) )
    => \A t \in ParticipantIds(rooms[c]) \ {last'.sock} :
         Connected(t) =>
           LET got == Delivered(out', t, last'.ev)
           IN  Len(got) = 1 /\ got[1].socketId = last'.sock

C11_ShareEventsDelivered == [][C11_ShareEventStep]_vars

----------------------------------------------------------------------------
(* C12: for every chat-message from a connection bound to a room, exactly  *)
(* one record is appended to that room's log, every connected participant  *)
(* of the room, the sender included, receives exactly one copy of it, and  *)
(* no connection that is not a participant of the room receives it.        *)

\* the room connection s is bound to: the room its last join resolved to
BoundRoom(s) == ToUpperCase(sockets[s].roomId)

C12_ChatStep ==
  \A c \in DOMAIN rooms :
    ( /\ last'.ev = "chat-message"
      /\ BoundRoom(last'.sock) = c
      /\ Has(rooms[c], last'.sock) )
    => /\ c \in DOMAIN rooms'
       /\ Len(rooms'[c].messages) = Len(rooms[c].messages) + 1
       /\ SubSeq(rooms'[c].messages, 1, Len(rooms[c].messages)) = rooms[c].messages
       /\ LET record == rooms'[c].messages[Len(rooms'[c].messages)]
          IN  /\ record.socketId = last'.sock
              /\ \A t \in DOMAIN sockets :
                   Delivered(out', t, "chat-message") =
                     IF Connected(t) /\ Has(rooms[c], t)
                       THEN <<ChatMsg(record)>> ELSE <<>>

C12_ChatFanOut == [][C12_ChatStep]_vars

----------------------------------------------------------------------------
(* C13: every registered upload session has                                *)
(* 0 <= bytesReceived <= declared size <= 25 MiB, after any sequence of    *)
(* start, chunk and complete events.                                       *)

C13_UploadSizeBounds ==
  \A s \in DOMAIN uploads :
    \A u \in DOMAIN uploads[s] :
      /\ 0 <= uploads[s][u].bytesReceived
      /\ uploads[s][u].bytesReceived <= uploads[s][u].size
      /\ uploads[s][u].size <= MAX_SOCKET_UPLOAD_BYTES

\* a chunk was just accepted that brought a session to its declared size
C13_Witness ==
  /\ last.ev = "file-upload-chunk" /\ last.flag
  /\ last.payload \in DOMAIN uploads[last.sock]
  /\ uploads[last.sock][last.payload].bytesReceived =
       uploads[last.sock][last.payload].size
  /\ Len(streams[last.payload].pending) = 2

----------------------------------------------------------------------------
(* C14: when a chunk brings a session's cumulative bytes above its         *)
(* declared size (or above 25 MiB), that chunk is acknowledged with the    *)
(* error 'File exceeded declared size', the session is removed, the write  *)
(* stream is destroyed, nothing is broadcast and the partial file is not   *)
(* on disk from then on; a later chunk or complete for that upload id is   *)
(* answered 'Unknown uploadId'.                                            *)

\* the step is a chunk of connection s for its open session u that passes
\* the declared size
ExceedingChunk(s, u) ==
  /\ last'.ev = "file-upload-chunk" /\ last'.sock = s /\ last'.payload = u
  /\ last'.flag
  /\ u \in DOMAIN uploads[s] /\ ~uploads[s][u].closed
  /\ uploads[s][u].bytesReceived + last'.num > uploads[s][u].size

\* the upload u was aborted by an exceeding chunk: its stream was destroyed
\* while its owner is connected
Aborted(u) ==
  /\ u \in DOMAIN streams
  /\ streams[u].state = "destroyed" /\ Connected(streams[u].owner)

C14_ExceedStep ==
  \A s \in DOMAIN sockets, u \in UploadIds :
    ExceedingChunk(s, u) =>
      /\ acks' # <<>>
      /\ acks'[1] = AckError(s, "file-upload-chunk", u, "File exceeded declared size")
      /\ u \notin DOMAIN uploads'[s]
      /\ streams'[u].state # "live"
      /\ uploads[s][u].filename \notin DOMAIN disk'
      /\ Silent(out')

C14_LaterStep ==
  \A u \in UploadIds :
    ( /\ Aborted(u)
      /\ last'.ev \in {"file-upload-chunk", "file-upload-complete"}
      /\ last'.sock = streams[u].owner /\ last'.payload = u )
    => /\ acks' = <<AckError(last'.sock, last'.ev, u, "Unknown uploadId")>>
       /\ Silent(out')

C14_PartialFileGone ==
  \A u \in UploadIds : Aborted(u) => streams[u].file \notin DOMAIN disk

C14_ExceedingChunkAborts ==
  /\ []C14_PartialFileGone
  /\ [][C14_ExceedStep /\ C14_LaterStep]_vars

----------------------------------------------------------------------------
(* C15: a file-upload-chunk or file-upload-complete naming an upload id    *)
(* that a different connection started is acknowledged with the error      *)
(* 'Unknown uploadId' and leaves the owner's session (bytes received,      *)
(* closed flag), its stream and the stored file unchanged.                 *)

C15_ForeignStep ==
  \A s \in DOMAIN sockets, owner \in DOMAIN sockets, u \in UploadIds :
    ( /\ owner # s
      /\ last'.ev \in {"file-upload-chunk", "file-upload-complete"}
      /\ last'.sock = s /\ last'.payload = u
      /\ u \in DOMAIN uploads[owner] )
    => /\ acks' = <<AckError(s, last'.ev, u, "Unknown uploadId")>>
       /\ uploads' = uploads
       /\ streams' = streams
       /\ disk' = disk

C15_UploadBelongsToConnection == [][C15_ForeignStep]_vars

\* a connection just sent a chunk naming the open session of another
\* connection, which has received bytes, and was answered 'Unknown uploadId'
C15_Witness ==
  /\ last.ev = "file-upload-chunk" /\ last.flag
  /\ acks = <<AckError(last.sock, "file-upload-chunk", last.payload, "Unknown uploadId")>>
  /\ \E owner \in DOMAIN sockets \ {last.sock} :
       /\ last.payload \in DOMAIN uploads[owner]
       /\ uploads[owner][last.payload].bytesReceived > 0
       /\ ~uploads[owner][last.payload].closed

----------------------------------------------------------------------------
(* C16: whenever file-upload-complete is acknowledged with a FileMeta, the *)
(* write stream has finished successfully, the stored file exists and      *)
(* file.size (the sum of the accepted chunk lengths) is the length of the  *)
(* stored file.                                                            *)

C16_CompleteAckStep ==
  \A i \in 1..Len(acks') :
    acks'[i].hasFile =>
      LET st == streams'[acks'[i].uploadId]
      IN  /\ st.state = "finished"
          /\ st.file \in DOMAIN disk'
          /\ acks'[i].size = disk'[st.file]
          /\ acks'[i].url = "/uploads/" \o st.file

C16_FileMetaOnlyAfterClose == [][C16_CompleteAckStep]_vars

----------------------------------------------------------------------------
(* C17: after a connection has disconnected no upload session of it is     *)
(* registered, and once its streams have settled no file of a session of   *)
(* it that did not complete is on disk.                                    *)

\* nothing asynchronous is outstanding on the stream of upload u
Settled(u) == streams[u].opened /\ streams[u].state # "failed"

C17_NoLeftovers ==
  \A s \in DOMAIN sockets :
    sockets[s].status = "disconnected" =>
      /\ uploads[s] = << >>
      /\ \A u \in DOMAIN streams :
           ( /\ streams[u].owner = s
             /\ streams[u].state # "finished"
             /\ Settled(u) )
           => streams[u].file \notin DOMAIN disk

----------------------------------------------------------------------------
(* C18: when writing a chunk fails, that chunk is acknowledged with the    *)
(* error 'Write failed', the owner receives file-upload-error for the      *)
(* upload id, the session is removed and the partial file deleted, and no  *)
(* file-upload-complete for that id is acknowledged with a FileMeta.       *)

C18_WriteFailedStep ==
  \A u \in UploadIds :
    (last'.ev = "write-failed" /\ last'.payload = u) =>
      /\ acks' # <<>>
      /\ acks'[1] = AckError(streams[u].owner, "file-upload-chunk", u, "Write failed")

C18_ErrorStep ==
  \A u \in UploadIds :
    (last'.ev = "stream-error" /\ last'.payload = u) =>
      /\ u \notin DOMAIN uploads'[streams[u].owner]
      /\ streams[u].file \notin DOMAIN disk'
      /\ Connected(streams[u].owner) =>
           out'[streams[u].owner] =
             << [Msg("file-upload-error") EXCEPT !.payload = u,
                                                 !.message = "Write failed"] >>

C18_NoFileMetaStep ==
  \A i \in 1..Len(acks') :
    acks'[i].hasFile =>
      streams'[acks'[i].uploadId].state \notin {"failed", "errored"}

C18_Cleanup ==
  \A u \in DOMAIN streams :
    streams[u].state = "errored" =>
      /\ u \notin DOMAIN uploads[streams[u].owner]
      /\ streams[u].file \notin DOMAIN disk

C18_WriteFailureAborts ==
  /\ []C18_Cleanup
  /\ [][C18_WriteFailedStep /\ C18_ErrorStep /\ C18_NoFileMetaStep]_vars

----------------------------------------------------------------------------
(* C19: a connection that joined a room under a spelling of its code that  *)
(* differs in letter case is bound to that room as after a canonical join: *)
(* its chat-message is appended to the room's log and sent to the room,    *)
(* its toggle-mute and toggle-raise-hand set its flag and reach the other  *)
(* participants, its disconnect removes it from the room and the others    *)
(* receive user-left, and it receives the room's broadcasts.               *)

\* the connected participants of a room other than s
Others(room, s) == { t \in ParticipantIds(room) \ {s} : Connected(t) }

\* the participant entry of connection s
Entry(room, s) ==
  room.participants[CHOOSE i \in 1..Len(room.participants) :
                      room.participants[i].socketId = s]

C19_BoundStep ==
  \A c \in DOMAIN rooms :
    LET s == last'.sock
    IN  ( /\ last'.ev \in {"chat-message", "toggle-mute", "toggle-raise-hand",
                           "disconnect"}
          /\ s \in DOMAIN sockets /\ BoundRoom(s) = c /\ Has(rooms[c], s) )
        => CASE last'.ev = "chat-message" ->
                  /\ c \in DOMAIN rooms'
                  /\ Len(rooms'[c].messages) = Len(rooms[c].messages) + 1
                  /\ \A t \in Others(rooms[c], s) \cup {s} :
                       Len(Delivered(out', t, "chat-message")) = 1
             [] last'.ev = "toggle-mute" ->
                  /\ c \in DOMAIN rooms'
                  /\ Entry(rooms'[c], s).isMuted = last'.flag
                  /\ \A t \in Others(rooms[c], s) :
                       Len(Delivered(out', t, "user-mute-changed")) = 1
             [] last'.ev = "toggle-raise-hand" ->
                  /\ c \in DOMAIN rooms'
                  /\ Entry(rooms'[c], s).isHandRaised = last'.flag
                  /\ \A t \in Others(rooms[c], s) :
                       Len(Delivered(out', t, "user-hand-raised")) = 1
             [] OTHER ->
                  /\ c \in DOMAIN rooms' => ~Has(rooms'[c], s)
                  /\ \A t \in Others(rooms[c], s) :
                       Len(Delivered(out', t, "user-left")) = 1

\* a participant receives the user-joined of every later joiner of its room
C19_ReceiveStep ==
  \A s \in DOMAIN sockets, c \in DOMAIN rooms :
    JoinedStep(s, c) =>
      \A t \in Others(rooms[c], s) :
        Len(Delivered(out', t, "user-joined")) = 1

C19_CaseInsensitiveBinding == [][C19_BoundStep /\ C19_ReceiveStep]_vars

----------------------------------------------------------------------------
(* C20: a join-room from a connection that is already a participant of the *)
(* target room changes no participant, flag, nickname or host, sends no    *)
(* user-joined to anyone and answers the sender with room-joined carrying  *)
(* the current participant list, whatever nickname the request carries and *)
(* also when the room is at capacity.                                      *)

C20_RejoinStep ==
  \A c \in DOMAIN rooms :
    ( /\ last'.ev = "join-room"
      /\ ToUpperCase(last'.roomId) = c
      /\ Has(rooms[c], last'.sock) )
    => /\ rooms' = rooms
       /\ sockets' = sockets
       /\ sio' = sio
       /\ out'[last'.sock] = <<RoomJoined(last'.roomId, rooms[c], last'.sock)>>
       /\ \A t \in DOMAIN out' \ {last'.sock} : out'[t] = <<>>

C20_RejoinIsNoOp == [][C20_RejoinStep]_vars

\* a participant of a room that holds ten just asked to join it again under
\* a nickname that is not its own and was answered with the ten participants
C20_Witness ==
  /\ last.ev = "join-room"
  /\ ToUpperCase(last.roomId) \in DOMAIN rooms
  /\ Has(rooms[ToUpperCase(last.roomId)], last.sock)
  /\ Len(rooms[ToUpperCase(last.roomId)].participants) = MAX_PARTICIPANTS
  /\ last.nickname # sockets[last.sock].nickname
  /\ Len(out[last.sock]) = 1
  /\ out[last.sock][1].ev = "room-joined"
  /\ Len(out[last.sock][1].participants) = MAX_PARTICIPANTS

----------------------------------------------------------------------------
(* C21: a join-room rejected with 'Room not found' (a code that was never  *)
(* minted or whose room was destroyed), 'Room is full' or 'Nickname        *)
(* already taken' changes no room and not the requester's binding, emits   *)
(* exactly one error event to the requester and nothing to any other       *)
(* connection.                                                             *)

\* the error a join-room of connection s for roomId under nickname is
\* rejected with; "" when it is not rejected
Rejection(s, roomId, nickname) ==
  LET c == ToUpperCase(roomId)
  IN  IF c \notin DOMAIN rooms THEN "Room not found"
      ELSE IF Has(rooms[c], s) THEN ""
      ELSE IF Len(rooms[c].participants) >= MAX_PARTICIPANTS THEN "Room is full"
      ELSE IF \E i \in 1..Len(rooms[c].participants) :
                 rooms[c].participants[i].nickname = nickname
             THEN "Nickname already taken"
      ELSE ""

C21_RejectStep ==
  ( /\ last'.ev = "join-room"
    /\ Rejection(last'.sock, last'.roomId, last'.nickname) # "" )
  => /\ rooms' = rooms
     /\ sockets' = sockets
     /\ sio' = sio
     /\ out'[last'.sock] =
          <<ErrorMsg(Rejection(last'.sock, last'.roomId, last'.nickname))>>
     /\ \A t \in DOMAIN out' \ {last'.sock} : out'[t] = <<>>

C21_RejectedJoinChangesNothing == [][C21_RejectStep]_vars

\* a connection bound to no room was just refused the nickname of a
\* participant of a room of at least two, after some connection had closed
C21_Witness ==
  /\ last.ev = "join-room"
  /\ out[last.sock] = <<ErrorMsg("Nickname already taken")>>
  /\ sockets[last.sock].roomId = Undefined
  /\ Len(rooms[ToUpperCase(last.roomId)].participants) >= 2
  /\ \E s \in DOMAIN sockets : sockets[s].status = "disconnected"

----------------------------------------------------------------------------
(* C22: a successful join-room delivers to the joiner exactly one          *)
(* room-joined whose participant list is the room's participants in join   *)
(* order, ending with the joiner itself with default flags (not muted,     *)
(* hand not raised), and delivers exactly one user-joined describing the   *)
(* joiner to each participant that was in the room before, and none to the *)
(* joiner.                                                                 *)

C22_JoinStep ==
  \A s \in DOMAIN sockets, c \in DOMAIN rooms :
    JoinedStep(s, c) =>
      LET joined == Delivered(out', s, "room-joined")
          ps == rooms'[c].participants
      IN  /\ Len(joined) = 1
          /\ joined[1].participants = ps
          /\ SubSeq(ps, 1, Len(ps) - 1) = rooms[c].participants
          /\ ps[Len(ps)] = [socketId |-> s] @@ UserData(last'.nickname)
          /\ ~ps[Len(ps)].isMuted /\ ~ps[Len(ps)].isHandRaised
          /\ Delivered(out', s, "user-joined") = <<>>
          /\ \A t \in Others(rooms[c], s) :
               Delivered(out', t, "user-joined") =
                 << [Msg("user-joined") EXCEPT !.socketId = s,
                                               !.nickname = last'.nickname] >>

C22_JoinDeliveries == [][C22_JoinStep]_vars

----------------------------------------------------------------------------
(* C23: when the host's connection leaves and at least one participant     *)
(* remains, the host becomes the remaining participant that joined         *)
(* earliest; when a participant that is not the host leaves, the host is   *)
(* unchanged.                                                              *)

C23_LeaveStep ==
  \A s \in DOMAIN sockets :
    (last'.ev = "disconnect" /\ last'.sock = s) =>
      \A c \in RoomsOf(rooms, s) :
        LET rest == MapDelete(rooms[c].participants, s)
        IN  rest # <<>> =>
              /\ c \in DOMAIN rooms'
              /\ rooms'[c].hostId = IF rooms[c].hostId = s
                                      THEN rest[1].socketId
                                      ELSE rooms[c].hostId

C23_HostTransfer == [][C23_LeaveStep]_vars

----------------------------------------------------------------------------
(* C24: an accepted toggle-mute{v} (resp. toggle-raise-hand{v}) sets        *)
(* exactly the sender's isMuted (resp. isHandRaised) flag to v in its room, *)
(* leaves every other participant and every other flag unchanged, and sends *)
(* one user-mute-changed (resp. user-hand-raised carrying the sender's      *)
(* nickname) to every other participant of the room and none to the sender. *)

\* the toggle of connection s is accepted: the room it is bound to is
\* registered and holds it
Accepted(s) ==
  /\ sockets[s].roomId \in DOMAIN rooms
  /\ Has(rooms[sockets[s].roomId], s)

\* the notification of a toggle ev of connection s with value v
ToggleNotice(ev, s, v) ==
  IF ev = "toggle-mute"
    THEN [Msg("user-mute-changed") EXCEPT !.socketId = s, !.flag = v]
    ELSE [Msg("user-hand-raised") EXCEPT !.socketId = s, !.flag = v,
                                         !.nickname = sockets[s].nickname]

\* the participant p after the toggle ev with value v
Toggled(ev, p, v) ==
  IF ev = "toggle-mute" THEN [p EXCEPT !.isMuted = v]
                        ELSE [p EXCEPT !.isHandRaised = v]

C24_ToggleStep ==
  \A s \in DOMAIN sockets :
    ( /\ last'.ev \in {"toggle-mute", "toggle-raise-hand"}
      /\ last'.sock = s /\ Accepted(s) )
    => LET c == sockets[s].roomId
           v == last'.flag
       IN  /\ DOMAIN rooms' = DOMAIN rooms
           /\ \A d \in DOMAIN rooms \ {c} : rooms'[d] = rooms[d]
           /\ rooms'[c].hostId = rooms[c].hostId
           /\ rooms'[c].messages = rooms[c].messages
           /\ Len(rooms'[c].participants) = Len(rooms[c].participants)
           /\ \A i \in 1..Len(rooms[c].participants) :
                rooms'[c].participants[i] =
                  IF rooms[c].participants[i].socketId = s
                    THEN Toggled(last'.ev, rooms[c].participants[i], v)
                    ELSE rooms[c].participants[i]
           /\ out'[s] = <<>>
           /\ \A t \in Others(rooms[c], s) :
                out'[t] = <<ToggleNotice(last'.ev, s, v)>>

C24_ToggleFrame == [][C24_ToggleStep]_vars

----------------------------------------------------------------------------
(* C25: a chat-message whose text is empty and that carries no file is     *)
(* ignored: no record is appended and nothing is broadcast; hence every    *)
(* record in any room's log has a non-empty text or a file reference.      *)

\* the step is a chat-message with empty text and no file
EmptyChat == last'.ev = "chat-message" /\ last'.nickname = "" /\ last'.payload = ""

C25_EmptyStep == EmptyChat => rooms' = rooms /\ Silent(out')

C25_RecordsNonEmpty ==
  \A c \in DOMAIN rooms :
    \A i \in 1..Len(rooms[c].messages) :
      rooms[c].messages[i].message # "" \/ rooms[c].messages[i].file # ""

C25_EmptyChatIgnored == []C25_RecordsNonEmpty /\ [][C25_EmptyStep]_vars

----------------------------------------------------------------------------
(* C26: a chat-message, toggle-mute or toggle-raise-hand from a connection *)
(* that is not bound to any room is silently dropped: no room's            *)
(* participants, flags or chat log change and nothing is emitted to any    *)
(* connection.                                                             *)

C26_UnboundStep ==
  \A s \in DOMAIN sockets :
    ( /\ last'.ev \in {"chat-message", "toggle-mute", "toggle-raise-hand"}
      /\ last'.sock = s
      /\ RoomsOf(rooms, s) = {} )
    => rooms' = rooms /\ Silent(out')

C26_UnboundDropped == [][C26_UnboundStep]_vars

\* a connection that is in no room has just sent a chat text while another
\* connection sits in a room, and nobody received anything
C26_Witness ==
  /\ last.ev = "chat-message" /\ last.nickname = "hi"
  /\ RoomsOf(rooms, last.sock) = {}
  /\ sockets[last.sock].roomId = Undefined
  /\ \E c \in DOMAIN rooms : Others(rooms[c], last.sock) # {}
  /\ Silent(out)

----------------------------------------------------------------------------
(* C27: an inbound event with missing fields (join-room without a payload  *)
(* or without roomId; chat-message, toggle-mute, toggle-raise-hand, offer  *)
(* or answer without a payload) is silently dropped: no room or session    *)
(* state changes, nothing is emitted, and no handler failure escapes to    *)
(* stop the server from serving other connections.                         *)

\* the event e lacks its payload or, for join-room, its roomId
Malformed(e) ==
  \/ /\ e.ev \in {"join-room", "chat-message", "toggle-mute",
                  "toggle-raise-hand", "offer", "answer"}
     /\ e.payload = Undefined
  \/ e.ev = "join-room" /\ e.roomId = Undefined

C27_MalformedStep ==
  Malformed(last') =>
    /\ rooms' = rooms
    /\ sockets' = sockets
    /\ sio' = sio
    /\ uploads' = uploads
    /\ Silent(out')
    /\ running'

C27_MalformedDropped == [][C27_MalformedStep]_vars

----------------------------------------------------------------------------
(* C28: a file-upload-start that names a room that does not exist, or      *)
(* whose size is not a positive integer or exceeds 25 MiB, is acknowledged *)
(* {ok: false, error}, registers no upload session and creates no file on  *)
(* disk.                                                                   *)

\* the room a file-upload-start of connection s names: data.roomId, or the
\* room of the connection when the event carries none
NamedRoom(s, roomId) == IF roomId # "" THEN ToUpperCase(roomId) ELSE BoundRoom(s)

\* the file-upload-start e is one the start operation fails on
InvalidStart(e) ==
  \/ NamedRoom(e.sock, e.roomId) \notin DOMAIN rooms
  \/ ~e.flag
  \/ ~e.whole
  \/ e.num <= 0
  \/ e.num > MAX_SOCKET_UPLOAD_BYTES

C28_InvalidStartStep ==
  (last'.ev = "file-upload-start" /\ InvalidStart(last')) =>
    /\ Len(acks') = 1
    /\ ~acks'[1].ok /\ acks'[1].error # ""
    /\ acks'[1].sock = last'.sock /\ acks'[1].ev = "file-upload-start"
    /\ uploads' = uploads
    /\ streams' = streams
    /\ disk' = disk

C28_InvalidStartRejected == [][C28_InvalidStartStep]_vars

----------------------------------------------------------------------------
(* C29: no two upload sessions, concurrent or successive, of the same or   *)
(* of different connections, ever write to the same storage file: every    *)
(* accepted file-upload-start opens a file that no other session has used. *)

C29_ExclusiveFiles ==
  \A u, v \in DOMAIN streams :
    u # v => streams[u].file # streams[v].file

----------------------------------------------------------------------------
(* C30: once file-upload-complete has been accepted for an upload, every   *)
(* later file-upload-chunk for that upload id gets a negative ack and adds *)
(* no bytes to the file or to the bytes received, whether it arrives       *)
(* before or after the stream has finished closing.                        *)

\* connection s started the upload u and its session is closed or, the
\* stream having ended, registered no more
Completed(s, u) ==
  /\ u \in DOMAIN streams /\ streams[u].owner = s
  /\ \/ u \in DOMAIN uploads[s] /\ uploads[s][u].closed
     \/ u \notin DOMAIN uploads[s]

C30_LateChunkStep ==
  \A s \in DOMAIN sockets, u \in UploadIds :
    ( /\ last'.ev = "file-upload-chunk"
      /\ last'.sock = s /\ last'.payload = u
      /\ Completed(s, u) )
    => /\ Len(acks') = 1
       /\ ~acks'[1].ok
       /\ acks'[1].error \in {"Upload already closed", "Unknown uploadId"}
       /\ uploads' = uploads
       /\ streams' = streams
       /\ disk' = disk

C30_NoChunkAfterComplete == [][C30_LateChunkStep]_vars

\* a chunk was just refused for a session that is closed while a write of
\* an earlier chunk is still queued on its stream
C30_Witness ==
  /\ last.ev = "file-upload-chunk" /\ last.flag
  /\ last.payload \in DOMAIN uploads[last.sock]
  /\ uploads[last.sock][last.payload].closed
  /\ acks = <<AckError(last.sock, "file-upload-chunk", last.payload,
                       "Upload already closed")>>
  /\ streams[last.payload].ending
  /\ streams[last.payload].pending # <<>>

----------------------------------------------------------------------------
(* C31: the `received` value in the ack of each accepted chunk equals the  *)
(* sum of the byte lengths of that chunk and of all chunks accepted        *)
(* earlier in the same session, including when the client sends several    *)
(* chunks without waiting for their acks.                                  *)

RECURSIVE SumSeq(_)
SumSeq(seq) == IF seq = <<>> THEN 0 ELSE Head(seq) + SumSeq(Tail(seq))

\* the bytes of the chunks of upload u accepted up to and including the
\* chunk whose write is the oldest queued one: all bytes received but those
\* of the chunks queued behind it
BytesUpToOldest(u) ==
  uploads[streams[u].owner][u].bytesReceived - SumSeq(Tail(streams[u].pending))

C31_AckStep ==
  \A u \in UploadIds :
    (last'.ev = "write-done" /\ last'.payload = u) =>
      /\ Len(acks') = 1
      /\ acks'[1].ok
      /\ acks'[1].received = BytesUpToOldest(u)

C31_ReceivedIsCumulative == [][C31_AckStep]_vars

----------------------------------------------------------------------------
(* C32: a room's chat log is append-only and fan-out preserves its order:  *)
(* if record r1 was appended to a room before r2 and a connection receives *)
(* both, it receives r1 before r2.  A connection receives the events of    *)
(* one step after those of every earlier step, so the order follows from   *)
(* two facts about each step: the log of a room that stays registered      *)
(* keeps its records and grows by at most one record, at its end; and a    *)
(* connection is delivered at most one chat message, the record that this  *)
(* very step appended.                                                     *)

\* the record that the step appended to the log of room c, if it did
Appended(c) == rooms'[c].messages[Len(rooms'[c].messages)]

C32_LogStep ==
  \A c \in DOMAIN rooms \cap DOMAIN rooms' :
    LET before == rooms[c].messages
        after == rooms'[c].messages
    IN  /\ Len(after) \in {Len(before), Len(before) + 1}
        /\ SubSeq(after, 1, Len(before)) = before

C32_FanOutStep ==
  \A t \in DOMAIN sockets :
    LET got == Delivered(out', t, "chat-message")
    IN  got # <<>> =>
          /\ Len(got) = 1
          /\ \E c \in DOMAIN rooms \cap DOMAIN rooms' :
               /\ rooms'[c].messages # <<>>
               /\ rooms'[c].messages = Append(rooms[c].messages, Appended(c))
               /\ got[1] = ChatMsg(Appended(c))

C32_ChatOrder == [][C32_LogStep /\ C32_FanOutStep]_vars

\* connection t, which sent the first record of a log and got it back then,
\* is delivered the second record, sent by another connection
C32_Witness ==
  \E c \in DOMAIN rooms, t \in DOMAIN sockets :
    /\ Len(rooms[c].messages) = 2
    /\ rooms[c].messages[1].socketId = t
    /\ rooms[c].messages[2].socketId # t
    /\ Delivered(out, t, "chat-message") = <<ChatMsg(rooms[c].messages[2])>>

----------------------------------------------------------------------------
(* C33: two consecutive toggle-mute {true} events from the same bound      *)
(* connection leave that participant's isMuted = true and produce one or   *)
(* two user-mute-changed notifications per other participant, never one to *)
(* the sender.                                                             *)

\* the event handled last was toggle-mute {isMuted: true} of connection s
MutedBy(e, s) == e.ev = "toggle-mute" /\ e.sock = s /\ e.flag

\* the user-mute-changed notifications the last event sent to connection t
MuteNotices(t) == Len(Delivered(out, t, "user-mute-changed"))

\* The second of the two events is handled in the state the first one left
\* and leaves that state again: the same flag is written and the same
\* notifications are sent.  What holds after the two events is therefore
\* what holds in every state that a toggle-mute {true} of a participant has
\* just produced: the flag is set, each other participant has one
\* notification of that event (two of the two events), the sender none.
C33_RepeatedMute ==
  \A c \in DOMAIN rooms, s \in DOMAIN sockets :
    (MutedBy(last, s) /\ BoundRoom(s) = c /\ Has(rooms[c], s))
    => /\ Entry(rooms[c], s).isMuted
       /\ \A t \in Others(rooms[c], s) : 2 * MuteNotices(t) \in {1, 2}
       /\ MuteNotices(s) = 0

----------------------------------------------------------------------------
(* The generator specification: create-room with every code the generator  *)
(* can produce, the codes of registered rooms included (the code is the    *)
(* first eight characters of a random uuid and nothing compares it with    *)
(* the registry), NumGenSockets connections that join and leave, and chat. *)

\* number of connections of the generator specification
NumGenSockets == 2
\* number of chat messages the generator specification lets the server accept
MaxGenMessages == 1

GenSocketIds == { SocketName(i) : i \in 1..NumGenSockets }

InitGen == InitWith(GenSocketIds)

NextGen ==
  \/ \E c \in Codes, h \in HostIdInputs : CreateRoom(c, h)
  \/ \E s \in GenSocketIds : Connect(s)
  \/ \E s \in GenSocketIds, c \in Codes : JoinRoom(s, c, NickOf(s))
  \/ \E s \in GenSocketIds : Disconnect(s)
  \/ \E s \in GenSocketIds : uuids < MaxGenMessages /\ ChatMessage(s, "hi", "")

SpecGen == InitGen /\ [][NextGen]_vars

----------------------------------------------------------------------------
(* C35: create-room never replaces or alters a room that is already        *)
(* registered: the participants, host and chat log of every existing room  *)
(* are unchanged by any number of create-room calls, whatever code the     *)
(* generator produces.                                                     *)

C35_CreateStep ==
  last'.ev = "create-room" =>
    \A c \in DOMAIN rooms :
      /\ c \in DOMAIN rooms'
      /\ rooms'[c].participants = rooms[c].participants
      /\ rooms'[c].hostId = rooms[c].hostId
      /\ rooms'[c].messages = rooms[c].messages

C35_CreateKeepsRooms == [][C35_CreateStep]_vars

----------------------------------------------------------------------------
(* C36: for each upload id at most one file-upload-complete is ever        *)
(* acknowledged with {ok: true, file}, also when a second complete for the *)
(* same id arrives before the first has finished closing the stream.  The  *)
(* acknowledgements of one step are counted, and a step that acknowledges  *)
(* a file finds the session registered and removes it, so that no later    *)
(* step acknowledges one for the same id.                                  *)

\* the {ok: true, file} acknowledgements for upload u among the acks a
FileAcks(a, u) ==
  SelectSeq(a, LAMBDA k : k.ev = "file-upload-complete" /\ k.uploadId = u
                          /\ k.ok /\ k.hasFile)

\* upload u has a registered session
Registered(m, u) == \E s \in DOMAIN m : u \in DOMAIN m[s]

C36_CompleteStep ==
  \A u \in UploadIds :
    /\ Len(FileAcks(acks', u)) <= 1
    /\ Len(FileAcks(acks', u)) = 1 =>
         Registered(uploads, u) /\ ~Registered(uploads', u)

C36_OneFileAck == [][C36_CompleteStep]_vars

----------------------------------------------------------------------------
(* The browser client: the Room page (pages/Room.tsx) attached to a        *)
(* connection and its useWebRTC hook.  A page emits join-room with the     *)
(* room id of its URL, once, when its socket has connected; the server's   *)
(* JoinRoom action with that id is the server handling it.  The events the *)
(* server emits travel to the page and wait in its `inbox` until the       *)
(* page's listener runs; the events the page emits wait in its `outbox`    *)
(* until the server handles them.  React runs the effects of a render      *)
(* after the handlers that changed the state have returned, so another     *)
(* event may be handled between a state change and the effects: `stale`    *)
(* holds the effect dependencies that have changed since the effects ran.  *)

serverVars == <<rooms, sockets, sio, out, res, last, uploads, streams, disk,
                acks, uuids, running>>

\* the page of a connection before any event: useState / useRef initial values
NewClient(roomId) ==
  [roomId |-> roomId,                  \* useParams(): the id as in the URL
   participants |-> <<>>,              \* useState<User[]>([])
   currentUser |-> Undefined,          \* useState<User | null>(null).socketId
   localStream |-> FALSE,              \* useState<MediaStream | null>(null)
   peersRef |-> << >>,                 \* useRef(new Map()): socketId -> peer
   made |-> <<>>,                      \* every SimplePeer constructed so far
   stale |-> {},
   isScreenSharing |-> FALSE,          \* useState(false)
   currentScreenSharer |-> Undefined,  \* useState<string | null>(null)
   screenShareStream |-> FALSE,        \* screenShareStreamRef.current
   screenSharePeers |-> {},            \* keys of screenSharePeersRef.current
   picking |-> FALSE,                  \* startScreenShare awaits getDisplayMedia
   picked |-> [currentUser |-> Undefined, participants |-> <<>>],
                                       \* what the running startScreenShare closed over
   listener |-> [currentUser |-> Undefined, currentScreenSharer |-> Undefined],
                                       \* what the registered socket listeners closed over
   emitted |-> {},                     \* the screen-share notices emitted so far
   inbox |-> <<>>,
   outbox |-> <<>>]

\* the socket ids of a participants list
ListedIds(participants) ==
  { participants[i].socketId : i \in 1..Len(participants) }

\* the handler that ran last has had its emits written to the connections
Flushed == last.ev \in {"", "wire"}

\* the page of connection c is open and its next event is ev
Next_In(c, ev) ==
  /\ Flushed
  /\ Connected(c)
  /\ clients[c].inbox # <<>>
  /\ Head(clients[c].inbox).ev = ev

\* socket.io hands the emits of the handler that ran last to the
\* connections, and the event that handler consumed is in flight no more
Wire ==
  /\ ~Flushed
  /\ clients' =
       [c \in DOMAIN clients |->
          [clients[c] EXCEPT
             !.inbox = IF sockets[c].status = "connected" THEN @ \o out[c] ELSE <<>>,
             !.outbox = IF sockets[c].status # "connected" THEN <<>>
                        ELSE IF last.sock = c /\ @ # <<>> /\ Head(@).ev = last.ev
                          THEN Tail(@) ELSE @]]
  /\ last' = [NoEvent EXCEPT !.ev = "wire"]
  /\ out' = EmptyOut
  /\ res' = NoRes
  /\ acks' = <<>>
  /\ UNCHANGED <<rooms, sockets, sio, running>>
  /\ UNCHANGED ioVars

\* handleRoomJoined
HandleRoomJoined(c) ==
  /\ Next_In(c, "room-joined")
  /\ clients' = [clients EXCEPT
       ![c].participants = Head(clients[c].inbox).participants,
       ![c].currentUser = c,
       ![c].stale = @ \cup {"participants", "currentUser"},
       ![c].inbox = Tail(@)]
  /\ UNCHANGED serverVars

\* handleUserJoined: a user already listed is not added again
HandleUserJoined(c) ==
  /\ Next_In(c, "user-joined")
  /\ LET m == Head(clients[c].inbox)
         user == [socketId |-> m.socketId] @@ UserData(m.nickname)
         exists == m.socketId \in ListedIds(clients[c].participants)
     IN  clients' = [clients EXCEPT
           ![c].participants = IF exists THEN @ ELSE Append(@, user),
           ![c].stale = IF exists THEN @ ELSE @ \cup {"participants"},
           ![c].inbox = Tail(@)]
  /\ UNCHANGED serverVars

\* handleUserLeft: prev.filter(...) is a new array every time
HandleUserLeft(c) ==
  /\ Next_In(c, "user-left")
  /\ LET m == Head(clients[c].inbox)
     IN  clients' = [clients EXCEPT
           ![c].participants = SelectSeq(@, LAMBDA p : p.socketId # m.socketId),
           ![c].stale = @ \cup {"participants"},
           ![c].inbox = Tail(@)]
  /\ UNCHANGED serverVars

\* the page emits join-room once its socket has connected, and not again
\* (hasInitializedRef); the server handles it
PageJoins(c) ==
  /\ Flushed
  /\ sockets[c].roomId = Undefined
  /\ JoinRoom(c, clients[c].roomId, NickOf(c))

----------------------------------------------------------------------------
(* The roster specification: one room, NumRosterSockets pages whose URL    *)
(* spells the room's code in upper or in lower case, joining and closing.  *)

\* number of connections of the roster specification
NumRosterSockets == 3

RosterSocketIds == { SocketName(i) : i \in 1..NumRosterSockets }
RosterRoom == "R1"

InitRoster ==
  /\ InitServer(RosterSocketIds)
  /\ clients \in [RosterSocketIds ->
                    { NewClient(id) : id \in { r \in RawIds : ToUpperCase(r) = RosterRoom } }]

NextRoster ==
  \/ Flushed /\ RosterRoom \notin DOMAIN rooms /\ CreateRoom(RosterRoom, "")
  \/ \E c \in RosterSocketIds : Flushed /\ Connect(c)
  \/ \E c \in RosterSocketIds : RosterRoom \in DOMAIN rooms /\ PageJoins(c)
  \/ \E c \in RosterSocketIds : Flushed /\ Disconnect(c)
  \/ Wire
  \/ \E c \in RosterSocketIds : HandleRoomJoined(c)
  \/ \E c \in RosterSocketIds : HandleUserJoined(c)
  \/ \E c \in RosterSocketIds : HandleUserLeft(c)

SpecRoster == InitRoster /\ [][NextRoster]_vars

----------------------------------------------------------------------------
(* C39: once every in-flight event has been delivered, the set of socket   *)
(* ids in a joined client's participants list equals the set of            *)
(* participant connection-ids of its room on the server, after any         *)
(* sequence of joins and disconnects of other connections.                 *)

\* nothing is in flight: every emit is on the wire and every page has
\* handled every event sent to it
Delivered_All == Flushed /\ \A c \in DOMAIN clients : clients[c].inbox = <<>>

\* the page of connection c is open and has handled its room-joined
JoinedClient(c) == Connected(c) /\ clients[c].currentUser # Undefined

C39_RosterMatchesRoom ==
  \A c \in DOMAIN clients :
    (Delivered_All /\ JoinedClient(c)) =>
      /\ BoundRoom(c) \in DOMAIN rooms
      /\ ListedIds(clients[c].participants) = ParticipantIds(rooms[BoundRoom(c)])

----------------------------------------------------------------------------
(* useWebRTC: the camera peer connections.  A SimplePeer with              *)
(* trickle: false emits one 'signal': an initiator its offer once it has   *)
(* gathered its candidates, a responder its answer after signal(offer).    *)
(* signal() with a description the peer cannot apply destroys the peer     *)
(* (setRemoteDescription rejects); on a destroyed peer it throws.          *)

RECURSIVE Digits(_)
Digits(n) == IF n < 10 THEN <<n>> ELSE Append(Digits(n \div 10), n % 10)

\* the code units of a connection id after its first character
CodeUnits(s) == Digits(CHOOSE i \in 1..99 : SocketName(i) = s)

\* JavaScript's a < b on strings: by code units from the left, a proper
\* prefix being the smaller
RECURSIVE LexLess(_, _)
LexLess(a, b) ==
  IF b = <<>> THEN FALSE
  ELSE IF a = <<>> THEN TRUE
  ELSE IF Head(a) # Head(b) THEN Head(a) < Head(b)
  ELSE LexLess(Tail(a), Tail(b))

\* const isInitiator = currentUser.socketId < participant.socketId
IsInitiator(me, other) == LexLess(CodeUnits(me), CodeUnits(other))

\* new window.SimplePeer({ initiator: isInitiator, trickle: false, stream })
NewPeer(socketId, isInitiator) ==
  [remote |-> socketId, initiator |-> isInitiator, destroyed |-> FALSE,
   state |-> "new"]

\* Map.prototype.set on peersRef.current
PeersSet(m, socketId, i) ==
  [r \in DOMAIN m \cup {socketId} |-> IF r = socketId THEN i ELSE m[r]]

\* createPeerConnection: the new peer takes the entry of socketId; a peer
\* that held the entry is neither looked at nor destroyed
CreatePeerConnection(cl, socketId, isInitiator) ==
  [cl EXCEPT !.made = Append(@, NewPeer(socketId, isInitiator)),
             !.peersRef = PeersSet(@, socketId, Len(cl.made) + 1)]

\* the effect "Initialize connections when participants change"
RECURSIVE InitializeConnections(_, _)
InitializeConnections(cl, ps) ==
  IF ps = <<>> THEN cl
  ELSE LET socketId == Head(ps).socketId
       IN  InitializeConnections(
             IF socketId # cl.currentUser /\ socketId \notin DOMAIN cl.peersRef
               THEN CreatePeerConnection(cl, socketId,
                                         IsInitiator(cl.currentUser, socketId))
               ELSE cl,
             Tail(ps))

\* the effect "Clean up peer connections when participants leave"
CleanUpConnections(cl) ==
  LET gone == DOMAIN cl.peersRef \ ListedIds(cl.participants)
  IN  [cl EXCEPT
         !.made = [i \in 1..Len(@) |->
                     IF \E r \in gone : cl.peersRef[r] = i
                       THEN [@[i] EXCEPT !.destroyed = TRUE] ELSE @[i]],
         !.peersRef = [r \in DOMAIN @ \ gone |-> @[r]]]

\* React runs the effects whose dependencies changed, in their order
ParticipantsEffects(c) ==
  /\ Flushed /\ Connected(c)
  /\ clients[c].stale # {}
  /\ LET cl == clients[c]
         initialized == IF cl.localStream /\ cl.currentUser # Undefined
                          THEN InitializeConnections(cl, cl.participants)
                          ELSE cl
         cleaned == IF "participants" \in cl.stale
                      THEN CleanUpConnections(initialized)
                      ELSE initialized
     IN  clients' = [clients EXCEPT ![c] =
           [cleaned EXCEPT
              !.stale = {},
              \* "Set up socket event listeners": the handlers of this render
              !.listener = [currentUser |-> cl.currentUser,
                            currentScreenSharer |-> cl.currentScreenSharer]]]
  /\ UNCHANGED serverVars

\* initializeLocalStream: getUserMedia resolves
LocalStreamReady(c) ==
  /\ Flushed /\ Connected(c)
  /\ ~clients[c].localStream
  /\ clients' = [clients EXCEPT ![c].localStream = TRUE,
                                ![c].stale = @ \cup {"localStream"}]
  /\ UNCHANGED serverVars

\* p.on('signal'): the i-th peer of the page emits its offer or its answer
PeerSignal(c, i) ==
  /\ Flushed /\ Connected(c)
  /\ i \in 1..Len(clients[c].made)
  /\ LET p == clients[c].made[i]
     IN  /\ ~p.destroyed
         /\ \/ p.initiator /\ p.state = "new"
            \/ ~p.initiator /\ p.state = "has-offer"
         /\ clients' = [clients EXCEPT
              ![c].made[i].state = "signalled",
              ![c].outbox = Append(@,
                 [ev |-> IF p.initiator THEN "offer" ELSE "answer",
                  to |-> p.remote, roomId |-> clients[c].roomId])]
  /\ UNCHANGED serverVars

\* the server handles the offer or answer a page has emitted
RelayFromPage(c) ==
  /\ Flushed
  /\ clients[c].outbox # <<>>
  /\ LET e == Head(clients[c].outbox)
     IN  Relay(e.ev, c, e.roomId, e.to, "sdp")

\* handleOffer
HandleOffer(c) ==
  /\ Next_In(c, "offer")
  /\ LET from == Head(clients[c].inbox).socketId
         created == CreatePeerConnection(clients[c], from, FALSE)
     IN  clients' = [clients EXCEPT
           ![c] = [created EXCEPT !.made[Len(created.made)].state = "has-offer",
                                  !.inbox = Tail(@)]]
  /\ UNCHANGED serverVars

\* peer.signal(answer)
SignalAnswer(p) ==
  IF p.destroyed THEN p
  ELSE IF p.initiator /\ p.state = "signalled" THEN [p EXCEPT !.state = "connected"]
  ELSE [p EXCEPT !.destroyed = TRUE]

\* handleAnswer
HandleAnswer(c) ==
  /\ Next_In(c, "answer")
  /\ LET from == Head(clients[c].inbox).socketId
         cl == clients[c]
     IN  clients' = [clients EXCEPT
           ![c].made = IF from \in DOMAIN cl.peersRef
                         THEN [@ EXCEPT ![cl.peersRef[from]] = SignalAnswer(@)]
                         ELSE @,
           ![c].inbox = Tail(@)]
  /\ UNCHANGED serverVars

----------------------------------------------------------------------------
(* The peer specification: one room, NumPeerSockets pages with the         *)
(* canonical URL that join, get their camera, connect their peers through  *)
(* the server's relay, and close.                                          *)

\* number of connections of the peer specification
NumPeerSockets == 2

PeerSocketIds == { SocketName(i) : i \in 1..NumPeerSockets }
PeerRoom == "R1"

InitPeers ==
  /\ InitServer(PeerSocketIds)
  /\ clients = [c \in PeerSocketIds |-> NewClient(PeerRoom)]

NextPeers ==
  \/ Flushed /\ PeerRoom \notin DOMAIN rooms /\ CreateRoom(PeerRoom, "")
  \/ \E c \in PeerSocketIds : Flushed /\ Connect(c)
  \/ \E c \in PeerSocketIds : PeerRoom \in DOMAIN rooms /\ PageJoins(c)
  \/ \E c \in PeerSocketIds : Flushed /\ Disconnect(c)
  \/ Wire
  \/ \E c \in PeerSocketIds : HandleRoomJoined(c)
  \/ \E c \in PeerSocketIds : HandleUserJoined(c)
  \/ \E c \in PeerSocketIds : HandleUserLeft(c)
  \/ \E c \in PeerSocketIds : LocalStreamReady(c)
  \/ \E c \in PeerSocketIds : ParticipantsEffects(c)
  \/ \E c \in PeerSocketIds : \E i \in 1..Len(clients[c].made) : PeerSignal(c, i)
  \/ \E c \in PeerSocketIds : RelayFromPage(c)
  \/ \E c \in PeerSocketIds : HandleOffer(c)
  \/ \E c \in PeerSocketIds : HandleAnswer(c)

SpecPeers == InitPeers /\ [][NextPeers]_vars

----------------------------------------------------------------------------
(* The mesh specification: one room and three pages whose camera is ready. *)
(* Every page joins; the first two handle what the server sends them and   *)
(* run their effects, the third has not got to its listeners yet.          *)

NumMeshSockets == 3
MeshSocketIds == { SocketName(i) : i \in 1..NumMeshSockets }
MeshRoom == "R1"
\* the pages whose listeners and effects run; the last page has joined but
\* its listeners have not run yet
NumMeshActive == 2
MeshActiveIds == { SocketName(i) : i \in 1..NumMeshActive }

InitMesh ==
  /\ rooms = RoomsSet(<< >>, MeshRoom, NewRoom(MeshRoom, "temp-host"))
  /\ sockets = [s \in MeshSocketIds |->
                  [status |-> "connected", roomId |-> Undefined,
                   nickname |-> Undefined]]
  /\ sio = [s \in MeshSocketIds |-> {}]
  /\ out = [s \in MeshSocketIds |-> <<>>]
  /\ res = NoRes
  /\ last = NoEvent
  /\ uploads = [s \in MeshSocketIds |-> << >>]
  /\ streams = << >>
  /\ disk = << >>
  /\ acks = <<>>
  /\ uuids = 0
  /\ running = TRUE
  /\ clients = [c \in MeshSocketIds |->
                  [NewClient(MeshRoom) EXCEPT !.localStream = TRUE,
                                              !.stale = {"localStream"}]]

NextMesh ==
  \/ \E c \in MeshSocketIds : PageJoins(c)
  \/ Wire
  \/ \E c \in MeshActiveIds : HandleRoomJoined(c)
  \/ \E c \in MeshActiveIds : HandleUserJoined(c)
  \/ \E c \in MeshActiveIds : ParticipantsEffects(c)
  \/ \E c \in MeshActiveIds : \E i \in 1..Len(clients[c].made) : PeerSignal(c, i)
  \/ \E c \in MeshActiveIds : RelayFromPage(c)
  \/ \E c \in MeshActiveIds : HandleOffer(c)
  \/ \E c \in MeshActiveIds : HandleAnswer(c)

SpecMesh == InitMesh /\ [][NextMesh]_vars

----------------------------------------------------------------------------
(* C34: for any two clients with distinct connection-ids that see each     *)
(* other in their participant lists, exactly one of them, the one with the *)
(* lexicographically smaller connection-id, creates its camera peer        *)
(* connection as initiator and sends the offer; the other only answers and *)
(* never sends an offer to it.                                             *)

\* the peers page x has constructed for remote y
PeersFor(x, y) ==
  { i \in 1..Len(clients[x].made) : clients[x].made[i].remote = y }

\* page x has emitted an offer to y that is still on its way to the server
OfferQueued(x, y) ==
  \E k \in 1..Len(clients[x].outbox) :
    clients[x].outbox[k].ev = "offer" /\ clients[x].outbox[k].to = y

\* pages x and y list each other
SeeEachOther(x, y) ==
  /\ x \in ListedIds(clients[y].participants)
  /\ y \in ListedIds(clients[x].participants)

\* the effects of page x have run with its camera and its identity
Settled_Page(x) ==
  /\ Connected(x) /\ clients[x].localStream
  /\ clients[x].currentUser = x /\ clients[x].stale = {}

C34_OneInitiator ==
  \A x \in DOMAIN clients : \A y \in DOMAIN clients \ {x} :
    LET smaller == LexLess(CodeUnits(x), CodeUnits(y))
    IN  \* the larger never initiates towards the smaller, nor offers
        /\ ~smaller =>
             /\ \A i \in PeersFor(x, y) : ~clients[x].made[i].initiator
             /\ ~OfferQueued(x, y)
        \* the smaller, once its effects have run, has created an initiator
        \* peer, and only one
        /\ (smaller /\ SeeEachOther(x, y) /\ Settled_Page(x)) =>
             Cardinality({ i \in PeersFor(x, y) : clients[x].made[i].initiator }) = 1

\* the smaller of two pages that list each other has had its offer answered
\* by a responder peer of the larger
C34_Witness ==
  \E x \in DOMAIN clients : \E y \in DOMAIN clients \ {x} :
    /\ LexLess(CodeUnits(x), CodeUnits(y))
    /\ SeeEachOther(x, y) /\ Settled_Page(x) /\ Settled_Page(y)
    /\ \E i \in PeersFor(x, y) :
         clients[x].made[i].initiator /\ clients[x].made[i].state = "connected"
    /\ \E j \in PeersFor(y, x) :
         ~clients[y].made[j].initiator /\ clients[y].made[j].state = "signalled"

----------------------------------------------------------------------------
(* C37: on a client, each remote participant has at most one live (not     *)
(* destroyed) camera peer connection at any time: whenever                 *)
(* createPeerConnection stores a peer for a socketId that already has an   *)
(* entry (e.g. an offer arriving after the participants effect already     *)
(* created a responder peer for that sender), the previous peer has been   *)
(* destroyed.                                                              *)

\* the peers of page x for remote y that have not been destroyed
LivePeers(x, y) == { i \in PeersFor(x, y) : ~clients[x].made[i].destroyed }

C37_OneLivePeer ==
  \A x \in DOMAIN clients : \A y \in DOMAIN clients \ {x} :
    Cardinality(LivePeers(x, y)) <= 1

----------------------------------------------------------------------------
(* Screen sharing on the page (useWebRTC).  startScreenShare runs in two   *)
(* steps, before and after the browser's screen picker; what it reads      *)
(* after the picker is what it closed over when it was called.  The socket *)
(* listeners are the ones registered by the effects that ran last, so they *)
(* read the currentUser and currentScreenSharer of that render.  The       *)
(* screen-share peers are kept as the keys of screenSharePeersRef.         *)

\* most notices a page may have emitted that the server has yet to handle
\* when screen sharing is started
MaxShareQueue == 1

\* setCurrentScreenSharer(v): a changed value makes the next render's
\* listeners new
SetCurrentScreenSharer(cl, v) ==
  [cl EXCEPT !.currentScreenSharer = v,
             !.stale = IF cl.currentScreenSharer = v THEN @
                       ELSE @ \cup {"currentScreenSharer"}]

\* the peer kept for another sharer is destroyed and its entry deleted
DropSharerPeer(cl, sharer, me) ==
  IF sharer # Undefined /\ sharer # me
    THEN [cl EXCEPT !.screenSharePeers = @ \ {sharer}]
    ELSE cl

\* startScreenShare up to `await getDisplayMedia(...)`; the page offers it
\* while it is not sharing
StartScreenShare(c) ==
  /\ Flushed /\ Connected(c)
  /\ ~clients[c].isScreenSharing /\ ~clients[c].picking
  /\ Len(clients[c].outbox) < MaxShareQueue
  /\ LET cl == clients[c]
         dropped == DropSharerPeer(cl, cl.currentScreenSharer, cl.currentUser)
     IN  clients' = [clients EXCEPT ![c] =
           [dropped EXCEPT
              !.picking = TRUE,
              !.picked = [currentUser |-> cl.currentUser,
                          participants |-> cl.participants]]]
  /\ UNCHANGED serverVars

\* startScreenShare after getDisplayMedia has resolved
ScreenPicked(c) ==
  /\ Flushed /\ Connected(c)
  /\ clients[c].picking
  /\ LET cl == clients[c]
         me == cl.picked.currentUser
         shared == SetCurrentScreenSharer(
                     [cl EXCEPT !.screenShareStream = TRUE,
                                !.isScreenSharing = TRUE],
                     me)
         notice == [ev |-> "screen-share-start", to |-> "",
                    roomId |-> cl.roomId]
     IN  clients' = [clients EXCEPT ![c] =
           [shared EXCEPT
              !.picking = FALSE,
              !.outbox = IF me # Undefined THEN Append(@, notice) ELSE @,
              !.emitted = IF me # Undefined THEN @ \cup {notice.ev} ELSE @,
              !.screenSharePeers =
                 @ \cup (ListedIds(cl.picked.participants) \ {me})]]
  /\ UNCHANGED serverVars

\* getDisplayMedia rejects (the picker is dismissed): the catch sets the
\* error
ScreenPickCancelled(c) ==
  /\ Flushed /\ Connected(c)
  /\ clients[c].picking
  /\ clients' = [clients EXCEPT ![c].picking = FALSE]
  /\ UNCHANGED serverVars

\* stopScreenShare: nothing happens without a screen stream
StopScreenShare(c) ==
  /\ Flushed /\ Connected(c)
  /\ clients[c].screenShareStream
  /\ LET cl == clients[c]
         stopped == SetCurrentScreenSharer(
                      [cl EXCEPT !.screenShareStream = FALSE,
                                 !.isScreenSharing = FALSE],
                      Undefined)
         notice == [ev |-> "screen-share-stop", to |-> "",
                    roomId |-> cl.roomId]
     IN  clients' = [clients EXCEPT ![c] =
           [stopped EXCEPT
              !.outbox = IF cl.currentUser # Undefined
                           THEN Append(@, notice) ELSE @,
              !.emitted = IF cl.currentUser # Undefined
                            THEN @ \cup {notice.ev} ELSE @,
              !.screenSharePeers = {}]]
  /\ UNCHANGED serverVars

\* the server takes a screen-share notice a page has emitted: it has no
\* handler for it
DiscardFromPage(c) ==
  /\ Flushed
  /\ clients[c].outbox # <<>>
  /\ LET e == Head(clients[c].outbox)
     IN  \/ e.ev = "screen-share-start" /\ ScreenShareStart(c, e.roomId)
         \/ e.ev = "screen-share-stop" /\ ScreenShareStop(c, e.roomId)

\* handleScreenShareStart with the notice {userId} that page userId has
\* emitted
HandleScreenShareStart(c, userId) ==
  /\ Flushed /\ Connected(c)
  /\ userId # c /\ "screen-share-start" \in clients[userId].emitted
  /\ LET cl == clients[c]
         dropped == DropSharerPeer(cl, cl.listener.currentScreenSharer, userId)
         set == SetCurrentScreenSharer(dropped, userId)
     IN  clients' = [clients EXCEPT ![c] =
           [set EXCEPT
              !.screenSharePeers = IF userId # cl.listener.currentUser
                                     THEN @ \cup {userId} ELSE @]]
  /\ UNCHANGED serverVars

\* handleScreenShareStop with the notice {userId} that page userId has
\* emitted
HandleScreenShareStop(c, userId) ==
  /\ Flushed /\ Connected(c)
  /\ userId # c /\ "screen-share-stop" \in clients[userId].emitted
  /\ LET cl == clients[c]
         closed == [cl EXCEPT !.screenSharePeers = @ \ {userId}]
     IN  clients' = [clients EXCEPT ![c] =
           IF cl.listener.currentScreenSharer = userId
             THEN SetCurrentScreenSharer(closed, Undefined)
             ELSE closed]
  /\ UNCHANGED serverVars

----------------------------------------------------------------------------
(* The screen-share specification: one room, NumShareSockets connected     *)
(* pages with the canonical URL that join and share their screens.         *)

\* number of connections of the screen-share specification
NumShareSockets == 2

ShareSocketIds == { SocketName(i) : i \in 1..NumShareSockets }
ShareRoom == "R1"

InitShare ==
  /\ rooms = RoomsSet(<< >>, ShareRoom, NewRoom(ShareRoom, "temp-host"))
  /\ sockets = [s \in ShareSocketIds |->
                  [status |-> "connected", roomId |-> Undefined,
                   nickname |-> Undefined]]
  /\ sio = [s \in ShareSocketIds |-> {}]
  /\ out = [s \in ShareSocketIds |-> <<>>]
  /\ res = NoRes
  /\ last = NoEvent
  /\ uploads = [s \in ShareSocketIds |-> << >>]
  /\ streams = << >>
  /\ disk = << >>
  /\ acks = <<>>
  /\ uuids = 0
  /\ running = TRUE
  /\ clients = [c \in ShareSocketIds |-> NewClient(ShareRoom)]

NextShare ==
  \/ \E c \in ShareSocketIds : PageJoins(c)
  \/ Wire
  \/ \E c \in ShareSocketIds : HandleRoomJoined(c)
  \/ \E c \in ShareSocketIds : HandleUserJoined(c)
  \/ \E c \in ShareSocketIds : ParticipantsEffects(c)
  \/ \E c \in ShareSocketIds : StartScreenShare(c)
  \/ \E c \in ShareSocketIds : ScreenPicked(c)
  \/ \E c \in ShareSocketIds : ScreenPickCancelled(c)
  \/ \E c \in ShareSocketIds : StopScreenShare(c)
  \/ \E c \in ShareSocketIds : DiscardFromPage(c)
  \/ \E c \in ShareSocketIds : \E userId \in ShareSocketIds :
       HandleScreenShareStart(c, userId)
  \/ \E c \in ShareSocketIds : \E userId \in ShareSocketIds :
       HandleScreenShareStop(c, userId)

SpecShare == InitShare /\ [][NextShare]_vars

----------------------------------------------------------------------------
(* C38: on a client, isScreenSharing = true implies that                   *)
(* currentScreenSharer is the client's own socket id, after any            *)
(* interleaving of local startScreenShare / stopScreenShare with           *)
(* screen-share-start and screen-share-stop events received from other     *)
(* participants.                                                           *)

C38_SharerIsSelf ==
  \A c \in DOMAIN clients :
    clients[c].isScreenSharing => clients[c].currentScreenSharer = c

====
